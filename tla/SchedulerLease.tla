--------------------------- MODULE SchedulerLease ---------------------------
(***************************************************************************)
(* The lease that gates scheduling (storage/lease.py, PGLeaseStore) and    *)
(* the ticks of Scheduler.run on every replica (scheduler.py).             *)
(*                                                                         *)
(* The lease statements use the clock of the database, so there is one     *)
(* clock.  Time is kept relative: left is expires_at - now, with -1 for    *)
(* every moment past the expiry, and age is how long a replica has been    *)
(* where it is.  How long a tick works and how long a replica sleeps       *)
(* between two ticks are bounded by constants, because whether the lease   *)
(* excludes depends on them and on nothing else.                           *)
(***************************************************************************)
EXTENDS Integers

CONSTANTS
    Replica,        \* processes of the service
    TTL,            \* scheduler_lease_ttl_sec
    MaxSleep,       \* longest time from the end of a tick to the next one
    MaxWork,        \* longest time from try_acquire to renew
    TickMayRaise,   \* whether a tick may raise before its renew
    NoLease,        \* there is no lease row yet
    Gone            \* the holder of the row is a process that has died

ASSUME TimeAssumption  == TTL \in Nat \ {0} /\ MaxSleep \in Nat /\ MaxWork \in Nat
ASSUME RaiseAssumption == TickMayRaise \in BOOLEAN
ASSUME RowAssumption   == NoLease \notin Replica /\ Gone \notin Replica /\ NoLease # Gone

VARIABLES
    holder,   \* scheduler_lease.holder
    left,     \* scheduler_lease.expires_at - now
    mode,     \* per replica: "down", "sleep" (between ticks) or "work"
    age       \* per replica: time since it entered its mode

leaseVars == <<holder, left, mode, age>>

LeaseInit ==
    /\ holder = NoLease
    /\ left = -1
    /\ mode = [r \in Replica |-> "sleep"]
    /\ age = [r \in Replica |-> 0]

Enter(r, m) ==
    /\ mode' = [mode EXCEPT ![r] = m]
    /\ age' = [age EXCEPT ![r] = 0]

\* Faulty: the upsert has no branch for an expired row.
AcquirableOnce == holder = NoLease

\* The INSERT ... ON CONFLICT of try_acquire takes the row when there is none
\* or it has expired, and then starts a full TTL.
Acquirable == holder = NoLease \/ left < 0

\* Faulty: tick does not look at what try_acquire returns.
TryAcquireIgnored(r) ==
    /\ mode[r] = "sleep"
    /\ holder' = IF Acquirable THEN r ELSE holder
    /\ left' = IF Acquirable THEN TTL ELSE left
    /\ Enter(r, "work")

\* tick(): try_acquire.  Its own unexpired lease is kept but NOT extended.
TryAcquire(r) ==
    /\ mode[r] = "sleep"
    /\ \/ /\ Acquirable
          /\ holder' = r /\ left' = TTL
          /\ Enter(r, "work")
       \/ /\ ~Acquirable /\ holder = r
          /\ Enter(r, "work")
          /\ UNCHANGED <<holder, left>>
       \/ /\ ~Acquirable /\ holder # r
          /\ Enter(r, "sleep")
          /\ UNCHANGED <<holder, left>>

\* Faulty: tick ends without a renew.
RenewMissing(r) ==
    /\ mode[r] = "work"
    /\ Enter(r, "sleep")
    /\ UNCHANGED <<holder, left>>

\* The end of tick(): renew, whose failure is not looked at.
Renew(r) ==
    /\ mode[r] = "work"
    /\ left' = IF holder = r /\ left > 0 THEN TTL ELSE left
    /\ Enter(r, "sleep")
    /\ UNCHANGED holder

\* A tick that raises (finding the due targets failed) skips its renew;
\* _supervise starts run() again in the same process, with the same holder.
RaiseTick(r) ==
    /\ TickMayRaise
    /\ mode[r] = "work"
    /\ Enter(r, "sleep")
    /\ UNCHANGED <<holder, left>>

\* A process dies; the lease row stays.  Nothing calls release().
Die(r) ==
    /\ mode[r] # "down"
    /\ Enter(r, "down")
    /\ holder' = IF holder = r THEN Gone ELSE holder
    /\ UNCHANGED left

\* A new process draws a new holder id.
Start(r) ==
    /\ mode[r] = "down"
    /\ Enter(r, "sleep")
    /\ UNCHANGED <<holder, left>>

MaxAge(m) == IF m = "sleep" THEN MaxSleep ELSE MaxWork

\* One unit of time passes, unless somebody is due to act first.
TimePasses ==
    /\ \A r \in Replica : mode[r] # "down" => age[r] < MaxAge(mode[r])
    /\ left' = IF left < 0 THEN -1 ELSE left - 1
    /\ age' = [r \in Replica |-> IF mode[r] = "down" THEN 0 ELSE age[r] + 1]
    /\ UNCHANGED <<holder, mode>>

Step(r) == TryAcquire(r) \/ Renew(r)

LeaseNext ==
    \/ \E r \in Replica : TryAcquire(r) \/ Renew(r) \/ RaiseTick(r) \/ Die(r) \/ Start(r)
    \/ TimePasses

LeaseSpec == LeaseInit /\ [][LeaseNext]_leaseVars

\* A replica that is up keeps ticking (the loop of Scheduler.run under
\* _supervise), and time passes.
FairLeaseSpec == LeaseSpec /\ WF_leaseVars(TimePasses) /\ \A r \in Replica : WF_leaseVars(Step(r))

-----------------------------------------------------------------------------
LeaseTypeOK ==
    /\ holder \in Replica \cup {NoLease, Gone}
    /\ left \in -1..TTL
    /\ mode \in [Replica -> {"down", "sleep", "work"}]
    /\ age \in [Replica -> Nat]

Working == {r \in Replica : mode[r] = "work"}

\* _app.py:70, "only one replica actually schedules": two replicas are never
\* inside a tick at the same time.
AtMostOneWorking == \A r, s \in Working : r = s

\* scheduler.py:5, "the holder is stable": a replica that is up and holds the
\* lease does not lose it to another one.
HolderStable ==
    [][\A r \in Replica : holder = r /\ mode'[r] # "down" => holder' = r]_leaseVars

\* The mapping under which the lease implements the promise of UC-6.9.
Abstract == INSTANCE ExclusiveScheduler WITH busy <- Working

ImplementsExclusive == Abstract!Spec

\* A lease whose holder has died, for good or not, is taken over as long as one other
\* replica stays up, whatever the rest do: scheduling does not stop with its holder.
DeadHolderReplaced ==
    \A r \in Replica :
        (holder = Gone /\ mode[r] # "down") ~> (holder \in Replica \/ mode[r] = "down")
=============================================================================
