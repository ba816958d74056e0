------------------------------- MODULE Fanout -------------------------------
(***************************************************************************)
(* runnables.PilotFanoutRunnable over the connection registry: ainvoke     *)
(* (gather) or astream (first completed) of several targets, which share   *)
(* the connection of their loop with each other and with other tasks.      *)
(***************************************************************************)
EXTENDS ConnectionRegistry, Sequences, SequencesExt

CONSTANT Target   \* the calls of the targets

\* The runnables of a fan-out are the values of a dict that is not empty.
ASSUME TargetAssumption ==
    Target # {} /\ Target \subseteq Task /\ IsFiniteSet(Target)

VARIABLES
    kind,     \* "ainvoke", "astream"; "none" before
    keep,     \* return_exceptions
    fan,      \* "idle", "wait", "yield", "returned", "raised"
    pending,  \* pending of astream
    batch,    \* done of astream, not yielded yet
    out,      \* labels of the outcomes handed to the caller
    asked     \* targets whose task was cancelled

fanvars == <<kind, keep, fan, pending, batch, out, asked>>
vars == <<regvars, fanvars>>

FanTypeOK ==
    /\ TypeOK
    /\ kind \in {"none", "ainvoke", "astream"} /\ keep \in BOOLEAN
    /\ fan \in {"idle", "wait", "yield", "returned", "raised"}
    /\ \A s \in {pending, batch, asked} : s \subseteq Target
    /\ out \in Seq(Target)

Init ==
    /\ RegInit
    /\ kind = "none" /\ keep = FALSE
    /\ fan = "idle" /\ pending = {} /\ batch = {} /\ out = <<>> /\ asked = {}

Over(t) == pc[t] \in Ended
Raises(t) == pc[t] # "ok" /\ ~keep

-----------------------------------------------------------------------------
\* Bound: a behaviour has a fan-out, or threads and a shutdown.  To a target a
\* shutdown is one more way for its connection to be lost.
NoShutdown == closer = "no" /\ \A h \in Thread : pc[h] = "idle"
OnlyTasks == closer' = "no" /\ \A h \in Thread : pc'[h] = "idle"

\* A task is made for every target.
Start ==
    /\ fan = "idle" /\ fan' = "wait" /\ NoShutdown
    /\ kind' \in {"ainvoke", "astream"} /\ keep' \in BOOLEAN
    /\ pc' = [c \in Caller |-> IF c \in Target THEN "get" ELSE pc[c]]
    /\ pending' = Target
    /\ UNCHANGED <<attempt, loop, using, cache, conns, sync, ending, faults, batch,
                   out, asked>>

\* gather returns the results of all, in the order of the labels.
GatherReturns ==
    /\ kind = "ainvoke" /\ fan = "wait"
    /\ \A t \in Target : Over(t) /\ ~Raises(t)
    /\ fan' = "returned" /\ out' = SetToSeq(Target)
    /\ UNCHANGED <<regvars, kind, keep, pending, batch, asked>>

\* It raises the first exception at once, and lets the others run.
GatherRaises ==
    /\ kind = "ainvoke" /\ fan = "wait"
    /\ \E t \in Target : Over(t) /\ Raises(t)
    /\ fan' = "raised"
    /\ UNCHANGED <<regvars, kind, keep, pending, batch, out, asked>>

\* Mutation: one task is taken at a time, and the others that are done with it.
WaitTakesOne ==
    \E t \in pending : Over(t) /\ batch' = {t} /\ pending' = {u \in pending : ~Over(u)}

\* asyncio.wait(FIRST_COMPLETED): whatever has ended by now.
WaitFirst ==
    /\ \E t \in pending : Over(t)
    /\ batch' = {t \in pending : Over(t)}
    /\ pending' = {t \in pending : ~Over(t)}

Wait ==
    /\ kind = "astream" /\ fan = "wait" /\ WaitFirst
    /\ fan' = "yield"
    /\ UNCHANGED <<regvars, kind, keep, out, asked>>

CancelRest == asked' = asked \cup pending

\* t.result() of the next one in the batch: yielded, or raised through the
\* generator, which cancels what is pending and forgets the rest of the batch.
Yield(t) ==
    /\ fan = "yield" /\ t \in batch
    /\ batch' = batch \ {t}
    /\ IF Raises(t)
       THEN fan' = "raised" /\ CancelRest /\ UNCHANGED out
       ELSE /\ out' = Append(out, t)
            /\ fan' = IF batch # {t} THEN "yield"
                      ELSE IF pending # {} THEN "wait" ELSE "returned"
            /\ UNCHANGED asked
    /\ UNCHANGED <<regvars, kind, keep, pending>>

\* The caller is cancelled, or leaves the generator: gather and astream cancel.
Abandon ==
    /\ fan \in {"wait", "yield"} /\ fan' = "raised" /\ CancelRest
    /\ UNCHANGED <<regvars, kind, keep, pending, batch, out>>

TargetCancelled(t) == t \in asked /\ Cancelled(t) /\ UNCHANGED fanvars

FanStep == GatherReturns \/ GatherRaises \/ Wait \/ \E t \in batch : Yield(t)

Next ==
    \/ Start \/ FanStep \/ Abandon
    \/ \E t \in Target : TargetCancelled(t)
    \/ \E t \in Task \ Target : Invoke(t) /\ UNCHANGED fanvars
    \/ RegNext /\ (fan = "idle" \/ OnlyTasks) /\ UNCHANGED fanvars

\* The event loops run what is ready, connect() and calls end one way or the
\* other (CallEnds of RemoteCall).  Nobody has to start, cancel or shut down.
Fairness ==
    /\ \A c \in Caller : WF_vars(CallStep(c) /\ UNCHANGED fanvars)
    /\ WF_vars(CloserStep /\ UNCHANGED fanvars)
    /\ WF_vars(FanStep)
    /\ \A t \in Target : WF_vars(TargetCancelled(t))

Spec == Init /\ [][Next]_vars
FairSpec == Spec /\ Fairness

-----------------------------------------------------------------------------
(* Properties *)

\* A fan-out that ends normally has handed on the outcome of every target,
\* once, whatever ended in the same batch; and when astream ends by an
\* exception, or either is abandoned, no target goes on that was not cancelled.
FanoutComplete ==
    /\ IsInjective(out)
    /\ fan = "returned" => ToSet(out) = Target
    /\ (fan = "raised" /\ (kind = "astream" \/ asked # {})) =>
           \A t \in Target : Over(t) \/ t \in asked

\* Calls and the shutdown end (CallsAndShutdownEnd), and so does a fan-out.
EverythingEnds ==
    CallsAndShutdownEnd /\ (fan # "idle" ~> fan \in {"returned", "raised"})
=============================================================================
