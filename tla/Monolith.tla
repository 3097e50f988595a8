------------------------------ MODULE Monolith ------------------------------
(***************************************************************************)
(* The life of the processes that run the monolith (cmd/monolith,          *)
(* internal/monolith): startup step by step, the four long-running parts   *)
(* under two nested errgroups, and the shutdown.  Several replicas share   *)
(* one database, which keeps the migrated schemas, the topic tables of the *)
(* bus and the business rows; everything else dies with the process.       *)
(*                                                                         *)
(* Business work is reduced to what startup and shutdown can get wrong: a  *)
(* job occupies a part, uses the pool and publishes to one topic in its    *)
(* transaction.  One auction goes through its trade.                       *)
(***************************************************************************)
EXTENDS Integers, Sequences, FiniteSets

CONSTANTS
  Replicas,      \* the processes
  Environments,  \* the environments they may be started in, by name
  Disturbed,     \* the replicas that faults and signals hit
  MaxFaults,     \* bound on failures of the surroundings and kills
  MaxSignals     \* bound on SIGTERM and SIGINT

ASSUME MonolithAssumption ==
  /\ Disturbed \subseteq Replicas
  /\ MaxFaults \in Nat /\ MaxSignals \in Nat

Contexts == {"participant", "auction", "billing", "settlement", "notification"}

\* What main, run, NewApplication and newApplication do before anything
\* runs, in their order: a kind of step and its subject.
Startup ==
  <<<<"load", "config">>, <<"open", "pool">>, <<"provider", "tracing">>,
    <<"provider", "metrics">>, <<"check", "auth">>,
    <<"migrate", "participant">>, <<"migrate", "auction">>,
    <<"migrate", "billing">>, <<"migrate", "settlement">>,
    <<"migrate", "notification">>, <<"assemble", "bus">>,
    <<"service", "auction">>, <<"service", "participant">>,
    <<"service", "billing">>, <<"service", "settlement">>,
    <<"service", "notification">>>>

\* The events of a context that publishes go to its topic.
Topics == {"participant", "auction", "billing"}

\* initializeOutboxTopic and InitializeEventsSchema create a context's own
\* topic; billing has nothing like it and relies on the subscribers.
Creates(c) == {c} \cap {"auction", "participant"}

\* The topics that the event handlers of a context subscribe to.
Handles ==
  [auction |-> {"participant", "auction"}, settlement |-> {"auction", "billing"},
   notification |-> Topics]

Handled == UNION {Handles[c] : c \in DOMAIN Handles}

\* Workers runs the first three in an errgroup of its own.
Workers == {"router", "closing", "expiry"}

Parts == Workers \cup {"http"}

\* Which part does a job, the topic its transaction publishes to, and what
\* it makes of the trade; a payment is to this module what an expiry is.
Jobs ==
  [register |-> [by |-> "http", topic |-> "participant",
                 from |-> "none", to |-> "none"],
   list     |-> [by |-> "http", topic |-> "auction",
                 from |-> "none", to |-> "listed"],
   close    |-> [by |-> "closing", topic |-> "auction",
                 from |-> "listed", to |-> "closed"],
   issue    |-> [by |-> "router", topic |-> "billing",
                 from |-> "closed", to |-> "invoiced"],
   expire   |-> [by |-> "expiry", topic |-> "billing",
                 from |-> "invoiced", to |-> "over"]]

VARIABLES
  env,       \* the environment of the deployment
  migrated,  \* contexts whose migration is recorded in its goose table
  topics,    \* topics whose watermill tables exist
  trade,     \* how far the auction has got
  proc,      \* the process of each replica
  faults, signals

vars == <<env, migrated, topics, trade, proc, faults, signals>>

\* at is the startup step; pending what goose read from its version table;
\* held the pool and the providers; idle parts do "none".  A part that gave
\* up waiting has abandoned its job.
NoProcess ==
  [phase |-> "down", at |-> 0, pending |-> FALSE, signalled |-> FALSE,
   held |-> {}, subscribed |-> {}, part |-> [p \in Parts |-> "off"],
   job |-> [p \in Parts |-> "none"], abandoned |-> {}, exit |-> "none"]

Init ==
  /\ env \in DOMAIN Environments
  /\ migrated = {} /\ topics = {} /\ trade = "none"
  /\ proc = [r \in Replicas |-> NoProcess]
  /\ faults = 0 /\ signals = 0

database == <<env, migrated, topics, trade>>

bounds == <<faults, signals>>

MayFail(r) == r \in Disturbed /\ faults < MaxFaults

Become(r, p) == proc' = [proc EXCEPT ![r] = p]

Busy(p, parts) == {x \in parts : p.job[x] # "none"}

Ended(p, x) == p.part[x] \in {"done", "failed"}

\* The context of the inner errgroup, in RunWorkers, and the one of run: the
\* latter hears of a failed worker only when RunWorkers has returned.
RunCancelled(p) ==
  \/ p.signalled \/ p.part["http"] = "failed"
  \/ /\ \A x \in Workers : Ended(p, x)
     /\ \E x \in Workers : p.part[x] = "failed"

WorkersCancelled(p) ==
  RunCancelled(p) \/ \E x \in Workers : p.part[x] = "failed"

Cancelled(p, x) == IF x = "http" THEN RunCancelled(p) ELSE WorkersCancelled(p)

-----------------------------------------------------------------------------
(* Startup.                                                                *)

settings == Environments[env]

\* config.Load: required variables are set, every value that is set is in its
\* range, and there is a secret in the mode that uses one.
Accepts(e) ==
  /\ e.database /\ e.currency
  /\ e.commission \in 0 .. 10000
  /\ e.verifyAbove >= 0
  /\ e.maxExtensions \in 0 .. 1000
  /\ \A d \in DOMAIN e.duration : e.duration[d] > 0
  /\ e.pspMode \in {"success", "decline", "flaky"}
  /\ e.authMode \in {"local-hs256", "jwks"}
  /\ e.authMode = "local-hs256" => e.secret

\* auth.NewMiddleware: jwks is a mode that config knows and nobody implements.
CanAuthenticate(e) == e.authMode = "local-hs256" /\ e.secret

\* The policies of a NewService accept their values; the other two contexts
\* take nothing from the environment.
listingRules(e) ==
  /\ e.currency /\ e.verifyAbove >= 0 /\ e.maxExtensions >= 0
  /\ e.duration.snipeWindow > 0 /\ e.duration.snipeExtension > 0

BillingPolicies(e) ==
  /\ e.commission \in 0 .. 10000 /\ e.duration.paymentTerm > 0
  /\ e.pspMode \in {"success", "decline", "flaky"} /\ e.duration.expiryPoll > 0

RelistPolicy(e) == e.duration.relistDelay > 0 /\ e.duration.relistDuration > 0

NewService(c, e) ==
  CASE c = "auction" -> listingRules(e)
    [] c = "billing" -> BillingPolicies(e)
    [] c = "settlement" -> RelistPolicy(e)
    [] c \in {"participant", "notification"} -> TRUE

Step(r) == Startup[proc[r].at]

\* The process is started, by hand or by its supervisor.
Launch(r) ==
  /\ proc[r].phase = "down"
  /\ Become(r, [NoProcess EXCEPT !.phase = "startup", !.at = 1])
  /\ UNCHANGED <<database, bounds>>

\* After the last step the errgroups start the parts.
Advanced(p) ==
  IF p.at < Len(Startup)
    THEN [p EXCEPT !.at = @ + 1, !.pending = FALSE]
    ELSE [p EXCEPT !.phase = "running",
                   !.part = [x \in Parts |-> IF x \in {"closing", "expiry"}
                                               THEN "up" ELSE "starting"]]

\* Every error path of startup: NewApplication shuts down the providers it
\* created, run closes the pool, main exits with 1.
Abort(r) == Become(r, [NoProcess EXCEPT !.exit = "error"])

Load(r) ==
  /\ Step(r)[1] = "load"
  /\ IF Accepts(settings) THEN Become(r, Advanced(proc[r])) ELSE Abort(r)
  /\ UNCHANGED <<database, bounds>>

\* NewDB pings with the context of run; a provider may not look at it.
Acquire(r) ==
  /\ \/ Step(r)[1] = "open" /\ ~proc[r].signalled
     \/ Step(r)[1] = "provider"
  /\ Become(r, [Advanced(proc[r]) EXCEPT !.held = @ \cup {Step(r)[2]}])
  /\ UNCHANGED <<database, bounds>>

CheckAuth(r) ==
  /\ Step(r)[1] = "check"
  /\ IF CanAuthenticate(settings) THEN Become(r, Advanced(proc[r])) ELSE Abort(r)
  /\ UNCHANGED <<database, bounds>>

\* Mutation: the version table is not looked at.
ReadAllPending(r) ==
  /\ Step(r)[1] = "migrate" /\ ~proc[r].signalled
  /\ ~proc[r].pending
  /\ Become(r, [proc[r] EXCEPT !.pending = TRUE])
  /\ UNCHANGED <<database, bounds>>

\* goose reads its version table, without a lock ...
ReadVersions(r) ==
  /\ Step(r)[1] = "migrate" /\ ~proc[r].signalled
  /\ ~proc[r].pending
  /\ Become(r, IF Step(r)[2] \in migrated THEN Advanced(proc[r])
                 ELSE [proc[r] EXCEPT !.pending = TRUE])
  /\ UNCHANGED <<database, bounds>>

\* ... and applies what is pending in a transaction.  If another replica has
\* done so in between, CREATE TABLE fails.
ApplyMigration(r) ==
  LET c == Step(r)[2]
  IN  /\ Step(r)[1] = "migrate" /\ ~proc[r].signalled
      /\ proc[r].pending
      /\ IF c \in migrated
           THEN Abort(r) /\ UNCHANGED migrated
           ELSE migrated' = migrated \cup {c} /\ Become(r, Advanced(proc[r]))
      /\ UNCHANGED <<env, topics, trade, bounds>>

\* The publisher of the dead letter, the router and its metrics; nothing runs.
AssembleBus(r) ==
  /\ Step(r)[1] = "assemble"
  /\ Become(r, Advanced(proc[r]))
  /\ UNCHANGED <<database, bounds>>

\* NewService, RegisterHTTP and RegisterEventHandlers of one context.
AssembleContext(r) ==
  /\ Step(r)[1] = "service"
  /\ IF NewService(Step(r)[2], settings)
       THEN /\ topics' = topics \cup Creates(Step(r)[2])
            /\ Become(r, Advanced(proc[r]))
       ELSE Abort(r) /\ UNCHANGED topics
  /\ UNCHANGED <<env, migrated, trade, bounds>>

\* A step that needs the network, the database or the run context fails.
StartupFails(r) ==
  /\ Step(r)[1] \notin {"load", "check"}
  /\ \/ /\ proc[r].signalled /\ Step(r)[1] \in {"open", "provider", "migrate"}
        /\ UNCHANGED faults
     \/ MayFail(r) /\ faults' = faults + 1
  /\ Abort(r)
  /\ UNCHANGED <<database, signals>>

StartupStep(r) ==
  /\ proc[r].phase = "startup"
  /\ \/ Load(r) \/ Acquire(r) \/ CheckAuth(r) \/ ReadVersions(r)
     \/ ApplyMigration(r) \/ AssembleBus(r) \/ AssembleContext(r)
     \/ StartupFails(r)

-----------------------------------------------------------------------------
(* The running parts.                                                      *)

Running(r) == proc[r].phase = "running"

\* Router.Run subscribes the handlers in any order; a subscription creates
\* the tables of its topic and its handler starts at once.
Subscribe(r, t) ==
  LET subscribed == proc[r].subscribed \cup {t}
  IN  /\ Running(r) /\ proc[r].part["router"] = "starting"
      /\ t \in Handled \ proc[r].subscribed
      /\ topics' = topics \cup {t}
      /\ Become(r, [proc[r] EXCEPT
           !.subscribed = subscribed,
           !.part["router"] = IF subscribed = Handled THEN "up" ELSE @])
      /\ UNCHANGED <<env, migrated, trade, bounds>>

\* Mutation: the listener does not wait for the bus.
ListenAtOnce(r) ==
  /\ Running(r) /\ proc[r].part["http"] = "starting"
  /\ Become(r, [proc[r] EXCEPT !.part["http"] = "up"])
  /\ UNCHANGED <<database, bounds>>

\* The listener waits for BusRunning.
Listen(r) ==
  /\ Running(r) /\ proc[r].part["http"] = "starting"
  /\ proc[r].part["router"] = "up" \/ proc[r].subscribed = Handled
  /\ Become(r, [proc[r] EXCEPT !.part["http"] = "up"])
  /\ UNCHANGED <<database, bounds>>

\* Mutation: the error of a part is not passed on.
PartFailsSilently(r, x) ==
  /\ Running(r) /\ MayFail(r)
  /\ proc[r].part[x] \in {"starting"} \cup (IF x = "http" THEN {"up"} ELSE {})
  /\ x = "http" => proc[r].subscribed = Handled
  /\ Become(r, [proc[r] EXCEPT !.part[x] = "done",
                               !.abandoned = @ \cup Busy(proc[r], {x})])
  /\ faults' = faults + 1
  /\ UNCHANGED <<database, signals>>

\* A subscription or ListenAndServe returns an error; RunHTTPServer then does
\* not wait for the running requests.  The workers only ever return nil.
PartFails(r, x) ==
  /\ Running(r) /\ MayFail(r)
  /\ proc[r].part[x] \in {"starting"} \cup (IF x = "http" THEN {"up"} ELSE {})
  /\ x = "http" => proc[r].subscribed = Handled
  /\ Become(r, [proc[r] EXCEPT !.part[x] = "failed",
                               !.abandoned = @ \cup Busy(proc[r], {x})])
  /\ faults' = faults + 1
  /\ UNCHANGED <<database, signals>>

\* A request, a tick or a message: one at a time in each part.  The scan of a
\* tick under a cancelled context fails, which ends the tick.
BeginJob(r, j) ==
  LET x == Jobs[j].by
  IN  /\ Running(r) /\ proc[r].job[x] = "none"
      /\ trade = Jobs[j].from
      /\ \/ proc[r].part[x] = "up"
         \/ /\ x = "router" /\ proc[r].part[x] = "starting"
            /\ "auction" \in proc[r].subscribed
      /\ x \in {"closing", "expiry"} => ~WorkersCancelled(proc[r])
      /\ Become(r, [proc[r] EXCEPT !.job[x] = j])
      /\ UNCHANGED <<database, bounds>>

\* Its transaction commits, or is rolled back because the pool is closed, the
\* topic has no table, another one was first or the context is cancelled.
EndJob(r, x) ==
  LET j == proc[r].job[x]
  IN  /\ j # "none"
      /\ \/ /\ "pool" \in proc[r].held /\ Jobs[j].topic \in topics
            /\ trade = Jobs[j].from /\ trade' = Jobs[j].to
         \/ trade' = trade
      /\ Become(r, [proc[r] EXCEPT !.job[x] = "none"])
      /\ UNCHANGED <<env, migrated, topics, bounds>>

\* SIGTERM or SIGINT once run has installed NotifyContext.
Signal(r) ==
  /\ r \in Disturbed /\ signals < MaxSignals
  /\ proc[r].phase \in {"startup", "running"} /\ proc[r].at > 1
  /\ ~proc[r].signalled
  /\ signals' = signals + 1
  /\ Become(r, [proc[r] EXCEPT !.signalled = TRUE])
  /\ UNCHANGED <<database, faults>>

-----------------------------------------------------------------------------
(* Shutdown.                                                               *)

\* RunHTTPServer: no new requests, the running ones may finish.
Drain(r) ==
  /\ Running(r) /\ proc[r].part["http"] = "up" /\ RunCancelled(proc[r])
  /\ Become(r, [proc[r] EXCEPT !.part["http"] = "draining"])
  /\ UNCHANGED <<database, bounds>>

\* Mutation: http does not wait for the running requests.
StopWithoutDrain(r, x) ==
  /\ Running(r) /\ Cancelled(proc[r], x)
  /\ IF x = "http" THEN proc[r].part[x] \in {"starting", "draining"}
                   ELSE /\ proc[r].part[x] \in {"starting", "up"}
                        /\ proc[r].job[x] = "none"
  /\ Become(r, [proc[r] EXCEPT !.part[x] = "done"])
  /\ UNCHANGED <<database, bounds>>

\* A part whose context is cancelled returns nil when it has nothing left.
Stop(r, x) ==
  /\ Running(r) /\ Cancelled(proc[r], x)
  /\ IF x = "http" THEN proc[r].part[x] \in {"starting", "draining"}
                   ELSE proc[r].part[x] \in {"starting", "up"}
  /\ proc[r].job[x] = "none"
  /\ Become(r, [proc[r] EXCEPT !.part[x] = "done"])
  /\ UNCHANGED <<database, bounds>>

\* The drain budget of the server, or the close timeout of the router, is
\* over.  Shutdown then returns an error, the router does not.
GiveUp(r, x) ==
  /\ Running(r) /\ proc[r].job[x] # "none"
  /\ \/ x = "http" /\ proc[r].part[x] = "draining"
     \/ /\ x = "router" /\ proc[r].part[x] \in {"starting", "up"}
        /\ WorkersCancelled(proc[r])
  /\ Become(r, [proc[r] EXCEPT
       !.part[x] = IF x = "http" THEN "failed" ELSE "done",
       !.abandoned = @ \cup {x}])
  /\ UNCHANGED <<database, bounds>>

\* The first error of the errgroups decides.
ExitCode(p) ==
  IF \E x \in Parts : p.part[x] = "failed" THEN "error" ELSE "ok"

\* g.Wait returned: the deferred calls of run flush the providers ...
Flush(r) ==
  /\ Running(r) /\ \A x \in Parts : Ended(proc[r], x)
  /\ Become(r, [NoProcess EXCEPT !.phase = "flushed", !.held = {"pool"},
                                 !.exit = ExitCode(proc[r]),
                                 !.signalled = proc[r].signalled,
                                 !.job = proc[r].job,
                                 !.abandoned = proc[r].abandoned])
  /\ UNCHANGED <<database, bounds>>

\* ... and then close the pool ...
ClosePool(r) ==
  /\ proc[r].phase = "flushed"
  /\ Become(r, [proc[r] EXCEPT !.phase = "closed", !.held = @ \ {"pool"}])
  /\ UNCHANGED <<database, bounds>>

\* ... and main exits.
Exit(r) ==
  /\ proc[r].phase = "closed"
  /\ Become(r, [NoProcess EXCEPT !.exit = proc[r].exit,
                                 !.held = proc[r].held,
                                 !.signalled = proc[r].signalled])
  /\ UNCHANGED <<database, bounds>>

\* SIGKILL, a panic, the machine.
Kill(r) ==
  /\ proc[r].phase # "down" /\ MayFail(r)
  /\ Become(r, [NoProcess EXCEPT !.exit = "killed"])
  /\ faults' = faults + 1
  /\ UNCHANGED <<database, signals>>

-----------------------------------------------------------------------------

ShutdownStep(r) ==
  \/ Drain(r) \/ Flush(r) \/ ClosePool(r) \/ Exit(r)
  \/ \E x \in Parts : Stop(r, x) \/ GiveUp(r, x)

Next ==
  \E r \in Replicas :
    \/ Launch(r) \/ StartupStep(r) \/ Listen(r) \/ Signal(r) \/ Kill(r)
    \/ \E t \in Topics : Subscribe(r, t)
    \/ \E x \in {"router", "http"} : PartFails(r, x)
    \/ \E j \in DOMAIN Jobs : BeginJob(r, j)
    \/ \E x \in Parts : EndJob(r, x)
    \/ ShutdownStep(r)

Spec == Init /\ [][Next]_vars

\* What the process does by itself, business and failures aside; a tick ends
\* once its context is cancelled.
LifeStep(r) ==
  \/ Launch(r) /\ proc[r].exit # "ok"
  \/ StartupStep(r) \/ Listen(r) \/ ShutdownStep(r)
  \/ \E t \in Topics : Subscribe(r, t)
  \/ /\ WorkersCancelled(proc[r])
     /\ \E x \in {"closing", "expiry"} : EndJob(r, x)

\* Fairness: a process that runs goes on and its timers fire; a request or a
\* handler may take for ever.  A supervisor starts a process that did not
\* exit cleanly.
Fairness == \A r \in Replicas : WF_vars(LifeStep(r))

LiveSpec == Spec /\ Fairness

-----------------------------------------------------------------------------
(* Properties.                                                             *)

Configured == Accepts(settings) /\ CanAuthenticate(settings)

\* GET /readyz answers 200: the server listens, the pool and the router are
\* up.
Ready(p) ==
  /\ p.phase = "running" /\ "pool" \in p.held
  /\ p.part["http"] = "up" /\ p.part["router"] = "up"

StoppedOnDemand(p) == p.phase = "down" /\ p.exit = "ok" /\ p.signalled

\* No part works before what it works with exists: whenever a request, a tick
\* or a message is being processed, by whichever replica, the configuration
\* was accepted, all five contexts are migrated and the topic its transaction
\* publishes to has its table.  The billing topic has it from the subscribers
\* alone, so this rests on the order of newApplication, on the BusRunning
\* gate of main and on no worker having anything to do before the first
\* listing.
WorkFindsItsTables ==
  \A r \in Replicas : \A x \in Busy(proc[r], Parts) :
    Configured /\ migrated = Contexts /\ Jobs[proc[r].job[x]].topic \in topics

\* The deferred calls of run give nothing back that is in use: without its
\* pool a process has no job but one whose part ran out of its budget or lost
\* its listener, the pool outlives the providers, and a process that is gone,
\* by whichever error path, holds nothing.
ReleasedInOrder ==
  \A r \in Replicas :
    LET p == proc[r]
    IN  /\ "pool" \notin p.held =>
             Busy(p, Parts) \subseteq p.abandoned /\ p.held = {}
        /\ p.phase = "down" => p.held = {}

\* Nothing goes on half dead: a signal, or an error of one part, brings the
\* whole process down through the two nested errgroups, although requests
\* and handlers may never return.
OnePartStopsAll ==
  \A r \in Replicas :
    proc[r].signalled \/ (\E x \in Parts : Ended(proc[r], x))
      ~> proc[r].phase = "down"

\* In a sound environment every replica is ready for good in the end, or has
\* been told to stop and exited cleanly: neither the race of two first starts
\* for the migrations, nor a kill between any two steps, nor a failed part
\* leaves a database or an exit code from which a restart does not recover.
ReplicasComeUp ==
  Configured => \A r \in Replicas : <>[](Ready(proc[r]) \/ StoppedOnDemand(proc[r]))
=============================================================================
