--------------------------- MODULE CheckpointSaver ---------------------------
(***************************************************************************)
(* checkpoint.PilotCheckpointSaver driving one thread of a remote store:   *)
(* every operation is a call to a handler of the worker, repeated by       *)
(* _aretry when an attempt fails.  An attempt the saver has given up on    *)
(* may still be on its way and run later, after operations that followed   *)
(* it; an attempt that ran may have its answer lost; the worker may be     *)
(* restarted between any two steps.                                        *)
(*                                                                         *)
(* The graph puts its checkpoints one after the other, ids ascending.  The *)
(* writes of the tasks of a checkpoint are sent at any time: nothing makes *)
(* aput_writes wait for the aput of its checkpoint, which may still be     *)
(* under way or raise.                                                     *)
(***************************************************************************)
EXTENDS CheckpointStore, FiniteSets

CONSTANTS
    TheThread, TheNs,  \* thread_id and checkpoint_ns of the graph's config
    TaskWrites,  \* task -> what aput_writes is given
    Blob,        \* the value of a checkpoint
    MaxTries,    \* attempts of _aretry times those of PilotRemoteRunnable
    Late,        \* may an attempt run after the saver gave it up?
    Durable      \* is the store the SQLite one (PILOT_CHECKPOINT_DB)?

ASSUME SaverAssumption ==
    /\ Cid \subseteq Nat /\ MaxTries \in Nat \ {0}
    /\ Late \in BOOLEAN /\ Durable \in BOOLEAN
    /\ TheThread \in Thread /\ TheNs \in Ns /\ None \notin Task
    /\ Blob \in Val /\ \A t \in Task : TaskWrites[t] \in Val

VARIABLES
    phase,   \* operation -> "new", "calling", "ok" or "raised"
    tries,   \* operation -> the attempt it is at
    flight,  \* the attempts whose request has not been handled
    reply    \* the attempts whose answer is on its way

saver == <<phase, tries, flight, reply>>
vars  == <<store, saver>>

Here == <<TheThread, TheNs>>

PutOps   == [cid : Cid, task : {None}]
WriteOps == [cid : Cid, task : Task]
Op       == PutOps \cup WriteOps
PutOf(c) == [cid |-> c, task |-> None]

Attempt == Op \X (1..MaxTries)
Ended(o) == phase[o] \in {"ok", "raised"}

SaverTypeOK ==
    /\ TypeOK
    /\ phase \in [Op -> {"new", "calling", "ok", "raised"}]
    /\ tries \in [Op -> 0..MaxTries]
    /\ flight \subseteq Attempt /\ reply \subseteq Attempt

SaverInit ==
    /\ Init
    /\ phase = [o \in Op |-> "new"]
    /\ tries = [o \in Op |-> 0]
    /\ flight = {} /\ reply = {}

\* aput and aput_writes: the first attempt is sent.
Begin(o) ==
    /\ phase[o] = "new"
    /\ o \in PutOps => \A c \in Cid : c < o.cid => Ended(PutOf(c))
    /\ phase' = [phase EXCEPT ![o] = "calling"]
    /\ tries' = [tries EXCEPT ![o] = 1]
    /\ flight' = flight \cup {<<o, 1>>}
    /\ UNCHANGED <<store, reply>>

\* The worker runs the handler of an attempt's request.  The answer to an
\* attempt that was given up has no reader.
Handle(a) ==
    /\ a \in flight
    /\ IF a[1] \in PutOps THEN Put(Here, a[1].cid, Blob)
                          ELSE PutWrites(Here, a[1].cid, a[1].task, TaskWrites[a[1].task])
    /\ flight' = flight \ {a}
    /\ reply' = IF phase[a[1]] = "calling" /\ tries[a[1]] = a[2] THEN reply \cup {a} ELSE reply
    /\ UNCHANGED <<phase, tries>>

\* A request or an answer is lost with its tunnel.
Lose(a) ==
    /\ a \in flight \cup reply
    /\ flight' = flight \ {a} /\ reply' = reply \ {a}
    /\ UNCHANGED <<store, phase, tries>>

\* The answer to the attempt that is awaited.
Return(o) ==
    /\ phase[o] = "calling" /\ <<o, tries[o]>> \in reply
    /\ phase' = [phase EXCEPT ![o] = "ok"]
    /\ reply' = reply \ {<<o, tries[o]>>}
    /\ UNCHANGED <<store, tries, flight>>

\* What a failed attempt leaves behind: nobody reads its answer.
GivenUp(o) ==
    /\ reply' = reply \ {<<o, tries[o]>>}
    /\ LET rest == IF Late THEN flight ELSE flight \ {<<o, tries[o]>>}
       IN  flight' = IF tries[o] < MaxTries THEN rest \cup {<<o, tries[o] + 1>>} ELSE rest

\* Mutation: the last failure is swallowed.
FailQuietly(o) ==
    /\ phase[o] = "calling"
    /\ GivenUp(o)
    /\ IF tries[o] < MaxTries
       THEN tries' = [tries EXCEPT ![o] = @ + 1] /\ UNCHANGED phase
       ELSE phase' = [phase EXCEPT ![o] = "ok"] /\ UNCHANGED tries
    /\ UNCHANGED store

\* Mutation: the attempts are not counted.
FailUncounted(o) ==
    /\ phase[o] = "calling"
    /\ reply' = reply \ {<<o, tries[o]>>}
    /\ flight' = flight \cup {<<o, tries[o]>>}
    /\ UNCHANGED <<store, phase, tries>>

\* An attempt fails, by a timeout or an error: _aretry makes another one or
\* raises.
Fail(o) ==
    /\ phase[o] = "calling"
    /\ GivenUp(o)
    /\ IF tries[o] < MaxTries
       THEN tries' = [tries EXCEPT ![o] = @ + 1] /\ UNCHANGED phase
       ELSE phase' = [phase EXCEPT ![o] = "raised"] /\ UNCHANGED tries
    /\ UNCHANGED store

\* The worker process is restarted.  Its streams are gone, its store only if
\* it is the in-memory one.
Restart ==
    /\ IF Durable THEN UNCHANGED store
       ELSE record' = NoRecords /\ order' = NoOrder /\ writes' = NoWrites
    /\ flight' = {} /\ reply' = {}
    /\ UNCHANGED <<phase, tries>>

SaverNext ==
    \/ \E o \in Op : Begin(o) \/ Return(o) \/ Fail(o)
    \/ \E a \in flight \cup reply : Lose(a) \/ Handle(a)
    \/ Restart

SaverSpec == SaverInit /\ [][SaverNext]_vars

\* Every attempt ends: its reads are bounded in time by timeout_secs, its writes
\* end if the daemon reads its socket (DaemonReads of RemoteCall), and the back-off
\* between two attempts is a sleep.
FairSpec == SaverSpec /\ \A o \in Op : WF_vars(Fail(o)) /\ WF_vars(Return(o))

-----------------------------------------------------------------------------
(* Properties *)

\* What a task's writes are in the store.
Entry(t) == [task |-> t, val |-> TaskWrites[t]]

\* What an operation that returned has stored is read back by aget_tuple: after
\* aput the checkpoint with its value; after aput_writes, as soon as the
\* checkpoint is found, the task's entry with its value among the pending writes.
\* aput and aput_writes return only once a handler has run, in whichever order
\* they come, and with the SQLite store neither restarts nor late attempts of
\* this or other operations undo or overwrite that.  (Writes that were
\* acknowledged are not found while their checkpoint is not.)
AckedDurable ==
    Durable => \A o \in Op :
        phase[o] = "ok" =>
            LET tuple == GetTuple(Here, o.cid)
            IN  /\ o \in PutOps => tuple.val = Blob
                /\ o \in WriteOps /\ tuple # NotFound =>
                      \E i \in 1..Len(tuple.writes) : tuple.writes[i] = Entry(o.task)

\* However many attempts at aput_writes run, a task's writes are in the pending
\* writes of its checkpoint once.
WritesOnce ==
    \A kc \in Key \X Cid : \A i, j \in 1..Len(writes[kc]) :
        writes[kc][i].task = writes[kc][j].task => i = j

\* The newest checkpoint of the store (get_tuple without an id, which a resumed
\* graph starts from) is the last one whose put returned, when no put has raised
\* and none is under way, if no earlier put needed a second attempt: only a
\* repeated put can come back, and the attempts of the last one are harmless.
\* Said of the SQLite store: the in-memory one forgets with its worker.
LatestUnlessRetried ==
    Durable => \A c \in Cid :
        /\ \A d \in Cid : phase[PutOf(d)] = IF d <= c THEN "ok" ELSE "new"
        /\ \A d \in Cid : d < c => tries[PutOf(d)] = 1
        => GetTuple(Here, None).cid = c

\* What an operation stores.
Stored(o) ==
    /\ o \in PutOps => record[Here][o.cid] = Blob
    /\ o \in WriteOps => Written(Here, o.cid, o.task)

\* The entry of a task is the one aput_writes was given, whichever attempt wrote
\* it.
WritesAsGiven ==
    \A c \in Cid : \A i \in 1..Len(writes[<<Here, c>>]) :
        writes[<<Here, c>>][i] = Entry(writes[<<Here, c>>][i].task)

AckedStored == Durable => \A o \in Op : phase[o] = "ok" => Stored(o)
AnsweredStored == Durable => \A a \in reply : Stored(a[1])

\* The inductive invariant behind AckedDurable, WritesOnce and OrderExact: an
\* answer is on its way only if its operation is stored, and a repeated attempt
\* finds in the store what it would write itself.
SaverInv ==
    /\ SaverTypeOK
    /\ OrderExact
    /\ WritesOnce
    /\ WritesAsGiven
    /\ AckedStored
    /\ AnsweredStored

\* An attempt has been made, is handled once, and is not repeated once its
\* operation has returned on it.
AttemptsSpent ==
    /\ \A a \in flight \cup reply : phase[a[1]] # "new" /\ a[2] <= tries[a[1]]
    /\ flight \cap reply = {}
    /\ \A o \in Op : phase[o] = "ok" => <<o, tries[o]>> \notin flight

PutsInTurn == \A c, d \in Cid : (d < c /\ phase[PutOf(c)] # "new") => Ended(PutOf(d))
RecordBegun == \A c \in Cid : record[Here][c] # None => phase[PutOf(c)] # "new"

\* No put before c can run any more.
Settled(c) == \A d \in Cid : d < c => phase[PutOf(d)] = "ok" /\ tries[PutOf(d)] = 1

NewestLast ==
    \A c \in Cid :
        /\ Settled(c) /\ record[Here][c] # None
        /\ \A d \in Cid : d > c => phase[PutOf(d)] = "new"
        => order[Here] # <<>> /\ Last(order[Here]) = c

\* The inductive invariant behind LatestUnlessRetried, besides SaverInv.
LatestInv == AttemptsSpent /\ PutsInTurn /\ RecordBegun /\ NewestLast

\* If every attempt ends, every aput and aput_writes returns or raises, whatever
\* is lost, late or restarted: _aretry counts its attempts.
OperationsEnd == \A o \in Op : phase[o] = "calling" ~> Ended(o)
=============================================================================
