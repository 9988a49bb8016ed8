--------------------------- MODULE MdnsAdvertiser ---------------------------
(***************************************************************************)
(* The mDNS advertiser on Avahi (mdns_advertiser.cpp): main publishes, the *)
(* WebSocket thread renames, and Avahi's poll thread calls back.  What the *)
(* poll thread runs, and what the others do while they hold its lock, is   *)
(* one action each; what a rename does without it is not.                  *)
(*                                                                         *)
(* Avahi (external): the client reports the daemon's states; a client that *)
(* has failed stays so; each request to the daemon may fail.               *)
(***************************************************************************)
EXTENDS Integers

CONSTANTS
    Labels,       \* service names
    Unnamed,      \* the empty one, which the daemon refuses
    MaxRetries,   \* MDNSContext::maxRetries
    MaxTimers     \* bound: retries pending at once

ASSUME MdnsAssumption ==
    MaxRetries \in Nat /\ MaxTimers \in Nat \ {0} /\ Unnamed \in Labels

VARIABLES
    ownName,      \* m_instanceName
    ctxName,      \* m_ctx->instanceName
    copied,       \* the name publish() has read
    poll,         \* m_ctx->threadedPoll is set
    client,       \* state of the client as called back last; "none" without one
    group,        \* m_ctx->group: "none", "empty", "added", or "rejected" after the
                  \* service was added
    groupName,    \* the name the group's service was added with
    retryCount,
    timers        \* retries that are scheduled

groupVars == <<group, groupName, retryCount, timers>>
nameVars == <<ownName, ctxName, copied>>
mdnsVars == <<nameVars, poll, client, groupVars>>

MdnsInit ==
    /\ ownName = Unnamed /\ ctxName = Unnamed /\ copied = Unnamed
    /\ poll = FALSE /\ client = "none" /\ group = "none" /\ groupName = Unnamed
    /\ retryCount = 0 /\ timers = 0

\* The constructor.
Construct(name) ==
    /\ ownName' = name /\ ctxName' = Unnamed /\ copied' = Unnamed
    /\ UNCHANGED <<poll, client, groupVars>>

\* publish() copies the name, without a lock.
ReadName ==
    /\ copied' = ownName
    /\ UNCHANGED <<ownName, ctxName, poll, client, groupVars>>

WriteName ==
    /\ ctxName' = copied
    /\ UNCHANGED <<ownName, copied, poll, client, groupVars>>

\* The poll is made, or freed because it or the client could not be started.
SetPoll(made) ==
    /\ poll' = made
    /\ UNCHANGED <<nameVars, client, groupVars>>

\* schedule_retry, with waiting timers that have not fired.
ScheduleRetry(waiting) ==
    IF retryCount < MaxRetries
    THEN waiting < MaxTimers /\ retryCount' = retryCount + 1 /\ timers' = waiting + 1
    ELSE timers' = waiting /\ UNCHANGED retryCount

Serves(state) == state \in {"registering", "running"}

\* The group counts as empty: it is, or the daemon cannot be asked.
TakenForEmpty(from, state) == from \in {"none", "empty"} \/ ~Serves(state)

\* Mutant: a service that cannot be added is not tried again.
CreateOnce(from, name, state, waiting) ==
    \/ /\ TakenForEmpty(from, state)
       /\ group' \in {from, "empty"} /\ timers' = waiting
       /\ UNCHANGED <<groupName, retryCount>>
    \/ /\ TakenForEmpty(from, state) /\ Serves(state) /\ name # Unnamed
       /\ group' = "added" /\ groupName' = name
       /\ retryCount' = 0 /\ timers' = waiting
    \/ /\ ~TakenForEmpty(from, state)
       /\ group' = from /\ timers' = waiting
       /\ UNCHANGED <<groupName, retryCount>>

\* create_services, called with the group in state from: a new group may be
\* refused, adding or committing may fail, and a group that is not empty is left.
CreateServices(from, name, state, waiting) ==
    \/ /\ TakenForEmpty(from, state)
       /\ group' \in {from, "empty"} /\ ScheduleRetry(waiting)
       /\ UNCHANGED groupName
    \/ /\ TakenForEmpty(from, state) /\ Serves(state) /\ name # Unnamed
       /\ group' = "added" /\ groupName' = name
       /\ retryCount' = 0 /\ timers' = waiting
    \/ /\ ~TakenForEmpty(from, state)
       /\ group' = from /\ timers' = waiting
       /\ UNCHANGED <<groupName, retryCount>>

\* Avahi drops what a group holds, if the daemon can be asked to.
Emptied == IF group = "none" \/ ~Serves(client) THEN group ELSE "empty"

\* avahi_client_callback: a daemon that runs is given the service, one that
\* registers (or resolves a collision of) its host name makes the group be
\* reset; that it is awaited or was lost is logged.
ClientCallback(state) ==
    /\ client' = state
    /\ \/ state = "running" /\ CreateServices(group, ctxName, state, timers)
       \/ state = "registering" /\ group' = Emptied /\ UNCHANGED <<groupName, retryCount, timers>>
       \/ state \in {"connecting", "failed"} /\ UNCHANGED groupVars
    /\ UNCHANGED <<nameVars, poll>>

\* The end of publish(): the client is made under the lock and may call back at
\* once.  Without one there is no poll thread either.
NewClient(state) == ClientCallback(state)

\* The daemon comes up, changes its host name, or goes.
DaemonChanges ==
    \/ client = "connecting" /\ \E state \in {"registering", "running", "failed"} : ClientCallback(state)
    \/ client = "registering" /\ \E state \in {"running", "failed"} : ClientCallback(state)
    \/ client = "running" /\ \E state \in {"registering", "failed"} : ClientCallback(state)

\* avahi_entry_group_callback: the daemon rejects a service it has taken, for a
\* collision of names or a failure of its own, and either is only logged.
Reject ==
    /\ group = "added" /\ Serves(client)
    /\ group' = "rejected"
    /\ UNCHANGED <<nameVars, poll, client, groupName, retryCount, timers>>

\* retry_callback
Retry ==
    /\ timers > 0
    /\ CreateServices(group, ctxName, client, timers - 1)
    /\ UNCHANGED <<nameVars, poll, client>>

\* updateInstanceName sets its own copy without a lock ...
SetOwnName(name) ==
    /\ ownName' = name
    /\ UNCHANGED <<ctxName, copied, poll, client, groupVars>>

\* Mutant: the group is not reset, so that it is not empty.
RenameAddedGroup(name) ==
    /\ ctxName' = name
    /\ IF group = "none" THEN UNCHANGED groupVars
       ELSE CreateServices(group, name, client, timers)
    /\ UNCHANGED <<ownName, copied, poll, client>>

\* ... and renames the service with the poll thread locked out.  (A poll that
\* publish() has freed since the test may crash it: the program may be killed
\* at any time.)
RenameService(name) ==
    /\ ctxName' = name
    /\ IF group = "none" THEN UNCHANGED groupVars
       ELSE CreateServices(Emptied, name, client, timers)
    /\ UNCHANGED <<ownName, copied, poll, client>>

\* A rename that found no poll takes no lock, although there may be a poll
\* thread by now.  First the name ...
RenameContext(name) ==
    /\ ctxName' = name
    /\ UNCHANGED <<ownName, copied, poll, client, groupVars>>

\* ... and then the group.  Two threads in the Avahi client at once is undefined:
\* the rename is done, or what the poll thread registered outlives the reset.
RenameGroup ==
    /\ \/ UNCHANGED groupVars
       \/ group # "none" /\ CreateServices(Emptied, ctxName, client, timers)
    /\ UNCHANGED <<nameVars, poll, client>>

\* The process ends, and with it client, group and poll thread.
Withdrawn ==
    /\ poll' = FALSE /\ client' = "none" /\ group' = "none"
    /\ retryCount' = 0 /\ timers' = 0 /\ groupName' = Unnamed
    /\ UNCHANGED nameVars
-----------------------------------------------------------------------------
MdnsTypeOK ==
    /\ {ownName, ctxName, copied, groupName} \subseteq Labels
    /\ poll \in BOOLEAN
    /\ client \in {"none", "connecting", "registering", "running", "failed"}
    /\ group \in {"none", "empty", "added", "rejected"}
    /\ retryCount \in 0..MaxRetries /\ timers \in 0..MaxTimers

\* A request to register that fails is tried again: however callbacks, retries
\* and renames follow each other while the daemon runs, a device without a
\* registration has a retry pending until MaxRetries in a row have failed.  A
\* service that the daemon takes and rejects later is left as it is: the code
\* only logs that.
RetryArmed ==
    client = "running" /\ group \in {"none", "empty"} => timers > 0 \/ retryCount = MaxRetries
=============================================================================
