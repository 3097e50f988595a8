--------------------------- MODULE MonolithProofs ---------------------------
(***************************************************************************)
(* Proofs about the life of the processes: no part works before what it    *)
(* works with exists, and the shutdown gives nothing back that is in use,  *)
(* for every number of replicas and every set of environments.             *)
(***************************************************************************)
EXTENDS Monolith, TLAPS

Phases == {"down", "startup", "running", "flushed", "closed"}

Holdings == {"pool", "tracing", "metrics"}

Process ==
  [phase : Phases, at : 0 .. 16, pending : BOOLEAN, signalled : BOOLEAN,
   held : SUBSET Holdings, subscribed : SUBSET Topics,
   part : [Parts -> {"off", "starting", "up", "draining", "done", "failed"}],
   job : [Parts -> DOMAIN Jobs \cup {"none"}],
   abandoned : SUBSET Parts, exit : {"none", "ok", "error", "killed"}]

\* The type of the state.
Shape ==
  /\ env \in DOMAIN Environments
  /\ migrated \subseteq Contexts /\ topics \subseteq Topics
  /\ trade \in {"none", "listed", "closed", "invoiced", "over"}
  /\ proc \in [Replicas -> Process]
  /\ faults \in Nat /\ signals \in Nat

\* The environment e has passed the checks of startup.
Sound(e) == Accepts(Environments[e]) /\ CanAuthenticate(Environments[e])

\* What the startup steps behind a process p have established.
Prepared(p, m, e) ==
  p.phase = "startup" =>
    /\ p.at \in 1 .. 16
    /\ p.at > 1 => Accepts(Environments[e])
    /\ p.at > 5 => CanAuthenticate(Environments[e])
    /\ \A i \in 6 .. 10 : i < p.at => Startup[i][2] \in m

\* The pool is the first thing taken and the last thing given back.
Equipped(p) ==
  CASE p.phase = "startup" -> IF p.at <= 2 THEN p.held = {} ELSE "pool" \in p.held
    [] p.phase = "running" -> "pool" \in p.held
    [] p.phase = "flushed" -> p.held = {"pool"}
    [] OTHER               -> p.held = {}

\* The listener is open only while, or after, every topic has a subscriber.
Gated(p, m, t, e) ==
  /\ p.subscribed \subseteq t
  /\ p.phase = "running" =>
       /\ Sound(e) /\ m = Contexts
       /\ p.part["router"] = "up" \/ p.part["http"] \in {"up", "draining"} =>
            p.subscribed = Handled

\* A part that has ended left no job behind but one it abandoned.
Settled(p) ==
  /\ p.phase \in {"down", "startup"} => \A x \in Parts : p.job[x] = "none"
  /\ p.phase = "running" =>
       \A x \in Parts : Ended(p, x) /\ p.job[x] # "none" => x \in p.abandoned
  /\ p.phase \in {"flushed", "closed"} =>
       \A x \in Parts : p.job[x] # "none" => x \in p.abandoned

\* A job finds everything it works with, and more than the topic it needs.
Supplied(p, m, t, e) ==
  \A x \in Parts : p.job[x] # "none" => Sound(e) /\ m = Contexts /\ t = Topics

Fits(p, m, t, e) ==
  /\ Prepared(p, m, e) /\ Equipped(p) /\ Gated(p, m, t, e)
  /\ Settled(p) /\ Supplied(p, m, t, e)

\* The inductive invariant.  The last conjunct is why a worker, which waits
\* for no gate, finds the billing topic: only a listener can start a trade.
IInv ==
  /\ Shape
  /\ \A r \in Replicas : Fits(proc[r], migrated, topics, env)
  /\ trade # "none" => topics = Topics

-----------------------------------------------------------------------------
(* The tables of the model.                                                *)

LEMMA HandledIsAll == Handled = Topics
<1>1. Handles["notification"] = Topics /\ "notification" \in DOMAIN Handles
  BY DEF Handles
<1>2. \A c \in DOMAIN Handles : Handles[c] \subseteq Topics
  BY DEF Handles, Topics
<1> QED
  BY <1>1, <1>2 DEF Handled

LEMMA Tables ==
  /\ Len(Startup) = 16
  /\ \A i \in 1 .. 16 :
       /\ Startup[i][1] = "load" <=> i = 1
       /\ Startup[i][1] = "open" <=> i = 2
       /\ Startup[i][1] = "provider" <=> i \in 3 .. 4
       /\ Startup[i][1] = "check" <=> i = 5
       /\ Startup[i][1] = "migrate" <=> i \in 6 .. 10
       /\ Startup[i][1] = "assemble" <=> i = 11
       /\ Startup[i][1] = "service" <=> i \in 12 .. 16
  /\ Startup[2][2] = "pool" /\ Startup[3][2] = "tracing" /\ Startup[4][2] = "metrics"
  /\ Startup[6][2] = "participant" /\ Startup[7][2] = "auction"
  /\ Startup[8][2] = "billing" /\ Startup[9][2] = "settlement"
  /\ Startup[10][2] = "notification"
<1>1. /\ Startup[1] = <<"load", "config">> /\ Startup[2] = <<"open", "pool">>
      /\ Startup[3] = <<"provider", "tracing">> /\ Startup[4] = <<"provider", "metrics">>
      /\ Startup[5] = <<"check", "auth">> /\ Startup[6] = <<"migrate", "participant">>
      /\ Startup[7] = <<"migrate", "auction">> /\ Startup[8] = <<"migrate", "billing">>
      /\ Startup[9] = <<"migrate", "settlement">>
      /\ Startup[10] = <<"migrate", "notification">>
      /\ Startup[11] = <<"assemble", "bus">> /\ Startup[12] = <<"service", "auction">>
      /\ Startup[13] = <<"service", "participant">>
      /\ Startup[14] = <<"service", "billing">> /\ Startup[15] = <<"service", "settlement">>
      /\ Startup[16] = <<"service", "notification">>
      /\ Len(Startup) = 16
  BY DEF Startup
<1> QED
  BY <1>1

LEMMA JobFacts ==
  /\ DOMAIN Jobs = {"register", "list", "close", "issue", "expire"}
  /\ \A j \in DOMAIN Jobs :
       /\ Jobs[j].by \in Parts /\ Jobs[j].topic \in Topics
       /\ Jobs[j].to \in {"none", "listed", "closed", "invoiced", "over"}
       /\ Jobs[j].from = "none" => Jobs[j].by = "http"
       /\ j # "none"
  BY DEF Jobs, Parts, Workers, Topics

LEMMA NoProcessFits ==
  ASSUME NEW m, NEW t, NEW e, NEW q \in Process, q.phase = "down",
         q.held = {}, q.subscribed = {}, \A x \in Parts : q.job[x] = "none"
  PROVE  Fits(q, m, t, e)
  BY DEF Fits, Prepared, Equipped, Gated, Settled, Supplied

\* Migrations and topics are never undone, so a process that does nothing
\* keeps what it has.
LEMMA StillFits ==
  ASSUME NEW p, NEW m \in SUBSET Contexts, NEW t \in SUBSET Topics, NEW e,
         NEW n \in SUBSET Contexts, NEW u \in SUBSET Topics,
         m \subseteq n, t \subseteq u, Fits(p, m, t, e)
  PROVE  Fits(p, n, u, e)
<1>1. Prepared(p, n, e)
  BY DEF Fits, Prepared
<1>2. Gated(p, n, u, e)
  BY DEF Fits, Gated
<1>3. Supplied(p, n, u, e)
  BY DEF Fits, Supplied
<1> QED
  BY <1>1, <1>2, <1>3 DEF Fits

LEMMA HeldIsFree ==
  ASSUME NEW a \in Process, NEW h \in SUBSET Holdings, NEW q, q = [a EXCEPT !.held = h]
  PROVE  /\ q \in Process /\ q.held = h /\ q.phase = a.phase /\ q.at = a.at
         /\ q.job = a.job /\ q.part = a.part /\ q.subscribed = a.subscribed
  BY DEF Process

\* A startup step that succeeds takes the process to the next one, or to its
\* parts; h is what it holds then.
LEMMA AdvancedFits ==
  ASSUME NEW p \in Process, NEW m \in SUBSET Contexts, NEW t, NEW e,
         Fits(p, m, t, e), p.phase = "startup",
         p.at = 1 => Accepts(Environments[e]),
         p.at = 5 => CanAuthenticate(Environments[e]),
         p.at \in 6 .. 10 => Startup[p.at][2] \in m,
         NEW h \in SUBSET Holdings,
         IF p.at = 1 THEN h = {} ELSE "pool" \in h,
         NEW a, a = Advanced(p), NEW q, q = [a EXCEPT !.held = h]
  PROVE  q \in Process /\ Fits(q, m, t, e)
<1>1. /\ p.at \in 1 .. 16
      /\ p.at > 1 => Accepts(Environments[e])
      /\ p.at > 5 => CanAuthenticate(Environments[e])
      /\ \A i \in 6 .. 10 : i < p.at => Startup[i][2] \in m
  BY DEF Fits, Prepared
<1>2. \A x \in Parts : p.job[x] = "none"
  BY DEF Fits, Settled
<1>3. CASE p.at < 16
  <2>1. /\ q \in Process /\ q.phase = "startup" /\ q.at = p.at + 1 /\ q.job = p.job
        /\ q.held = h /\ q.subscribed = p.subscribed
    <3>1. PICK k : k = p.at + 1 /\ k \in 0 .. 16
      BY <1>1, <1>3
    <3>2. a = [p EXCEPT !.at = k, !.pending = FALSE]
      BY <1>1, <1>3, <3>1, Tables DEF Advanced
    <3>3. a \in Process /\ a.phase = p.phase /\ a.at = k /\ a.job = p.job
          /\ a.subscribed = p.subscribed
      BY <3>1, <3>2 DEF Process
    <3>4. /\ q \in Process /\ q.held = h /\ q.phase = a.phase /\ q.at = a.at
          /\ q.job = a.job /\ q.part = a.part /\ q.subscribed = a.subscribed
      BY <3>3, HeldIsFree
    <3> QED
      BY <3>1, <3>3, <3>4
  <2>2. Prepared(q, m, e)
    <3>1. \A i \in 6 .. 10 : i < q.at => Startup[i][2] \in m
      <4> TAKE i \in 6 .. 10
      <4>1. i < q.at => i < p.at \/ i = p.at
        BY <1>1, <2>1
      <4> QED
        BY <1>1, <4>1
    <3> QED
      BY <1>1, <1>3, <2>1, <3>1 DEF Prepared
  <2>3. Equipped(q)
    BY <1>1, <2>1 DEF Equipped
  <2>4. Gated(q, m, t, e) /\ Settled(q) /\ Supplied(q, m, t, e)
    BY <1>2, <2>1 DEF Fits, Gated, Settled, Supplied
  <2> QED
    BY <2>1, <2>2, <2>3, <2>4 DEF Fits
<1>4. CASE p.at = 16
  <2> DEFINE parts == [x \in Parts |-> IF x \in {"closing", "expiry"}
                                           THEN "up" ELSE "starting"]
  <2>0. parts \in [Parts -> {"off", "starting", "up", "draining", "done", "failed"}]
    OBVIOUS
  <2>1. a = [p EXCEPT !.phase = "running", !.part = parts]
    BY <1>4, Tables DEF Advanced
  <2>2. /\ q \in Process /\ q.phase = "running" /\ q.job = p.job /\ q.held = h
        /\ q.part = parts /\ q.subscribed = p.subscribed
    <3> HIDE DEF parts
    <3>1. a \in Process /\ a.phase = "running" /\ a.job = p.job /\ a.part = parts
          /\ a.subscribed = p.subscribed
      BY <2>0, <2>1 DEF Process, Phases
    <3>2. /\ q \in Process /\ q.held = h /\ q.phase = a.phase /\ q.at = a.at
          /\ q.job = a.job /\ q.part = a.part /\ q.subscribed = a.subscribed
      BY <3>1, HeldIsFree
    <3> QED
      BY <3>1, <3>2
  <2>3. parts["router"] = "starting" /\ parts["http"] = "starting"
    BY DEF Parts, Workers
  <2>4. m = Contexts
    BY <1>1, <1>4, Tables DEF Contexts
  <2> HIDE DEF parts
  <2>5. Prepared(q, m, e) /\ Equipped(q)
    BY <1>4, <2>2 DEF Prepared, Equipped
  <2>6. Gated(q, m, t, e)
    BY <1>1, <1>4, <2>2, <2>3, <2>4 DEF Fits, Gated, Sound
  <2>7. Settled(q) /\ Supplied(q, m, t, e)
    BY <1>2, <2>2 DEF Settled, Supplied
  <2> QED
    BY <2>2, <2>5, <2>6, <2>7 DEF Fits
<1> QED
  BY <1>1, <1>3, <1>4

\* What a step of replica r leaves behind.
Kept(r) ==
  /\ proc' = [proc EXCEPT ![r] = proc'[r]]
  /\ proc'[r] \in Process /\ Fits(proc'[r], migrated', topics', env)
  /\ env' = env
  /\ migrated \subseteq migrated' /\ migrated' \subseteq Contexts
  /\ topics \subseteq topics' /\ topics' \subseteq Topics
  /\ trade' \in {"none", "listed", "closed", "invoiced", "over"}
  /\ trade' # "none" => topics' = Topics
  /\ faults' \in Nat /\ signals' \in Nat

\* A step that only changes the process.
LEMMA OnlyProcess ==
  ASSUME IInv, NEW r \in Replicas, NEW q \in Process, Become(r, q),
         Fits(q, migrated, topics, env), UNCHANGED database,
         faults' \in Nat, signals' \in Nat
  PROVE  Kept(r)
<1>1. proc' = [proc EXCEPT ![r] = proc'[r]] /\ proc'[r] = q
  BY DEF Become, IInv, Shape
<1> QED
  BY <1>1 DEF Kept, IInv, Shape, database

LEMMA NoProcessIsOne ==
  /\ NoProcess \in Process
  /\ \A i \in Parts : NoProcess.job[i] = "none"
  /\ NoProcess.phase = "down" /\ NoProcess.held = {} /\ NoProcess.subscribed = {}
  BY JobFacts DEF NoProcess, Process, Phases, Holdings

LEMMA AbortKeeps ==
  ASSUME IInv, NEW r \in Replicas, Abort(r), UNCHANGED database,
         faults' \in Nat, signals' \in Nat
  PROVE  Kept(r)
<1>1. PICK q : q = [NoProcess EXCEPT !.exit = "error"]
  OBVIOUS
<1>2. /\ q \in Process /\ q.phase = "down" /\ q.held = {} /\ q.subscribed = {}
      /\ \A x \in Parts : q.job[x] = "none"
  BY <1>1, NoProcessIsOne DEF Process
<1>3. Fits(q, migrated, topics, env)
  BY <1>2, NoProcessFits
<1>4. Become(r, q)
  BY <1>1 DEF Abort
<1> QED
  BY <1>2, <1>3, <1>4, OnlyProcess

LEMMA StartupKeeps ==
  ASSUME IInv, NEW r \in Replicas, StartupStep(r)
  PROVE  Kept(r)
<1>1. PICK p, m, t, e : p = proc[r] /\ m = migrated /\ t = topics /\ e = env
  OBVIOUS
<1>2. /\ p \in Process /\ m \in SUBSET Contexts /\ t \in SUBSET Topics
      /\ Fits(p, m, t, e) /\ p.phase = "startup"
      /\ faults \in Nat /\ signals \in Nat
  BY <1>1 DEF IInv, Shape, StartupStep
<1>3. /\ p.at \in 1 .. 16 /\ p.held \in SUBSET Holdings
      /\ IF p.at <= 2 THEN p.held = {} ELSE "pool" \in p.held
  BY <1>2 DEF Fits, Prepared, Equipped, Process
<1>4. Step(r) = Startup[p.at]
  BY <1>1 DEF Step
<1>5. /\ Startup[p.at][1] = "load" <=> p.at = 1
      /\ Startup[p.at][1] = "open" <=> p.at = 2
      /\ Startup[p.at][1] = "provider" <=> p.at \in 3 .. 4
      /\ Startup[p.at][1] = "check" <=> p.at = 5
      /\ Startup[p.at][1] = "migrate" <=> p.at \in 6 .. 10
      /\ Startup[p.at][1] = "assemble" <=> p.at = 11
      /\ Startup[p.at][1] = "service" <=> p.at \in 12 .. 16
  BY <1>3, Tables
<1>6. Advanced(p) = [Advanced(p) EXCEPT !.held = p.held]
  BY <1>2, <1>3, Tables DEF Advanced, Process
<1>7. ASSUME p.at # 2,
             p.at = 1 => Accepts(Environments[e]),
             p.at = 5 => CanAuthenticate(Environments[e]),
             NEW n \in SUBSET Contexts, NEW u \in SUBSET Topics,
             m \subseteq n, t \subseteq u,
             p.at \in 6 .. 10 => Startup[p.at][2] \in n
      PROVE  Advanced(p) \in Process /\ Fits(Advanced(p), n, u, e)
  <2>1. Fits(p, n, u, e)
    BY <1>2, <1>7, StillFits
  <2>2. PICK q : q = Advanced(p)
    OBVIOUS
  <2>3. IF p.at = 1 THEN p.held = {} ELSE "pool" \in p.held
    BY <1>3, <1>7
  <2> QED
    BY <1>2, <1>3, <1>6, <1>7, <2>1, <2>2, <2>3, AdvancedFits
<1>8. PICK q : q = Advanced(p)
  OBVIOUS
<1>9. ASSUME p.at # 2, Become(r, Advanced(proc[r])),
             p.at = 1 => Accepts(Environments[e]),
             p.at = 5 => CanAuthenticate(Environments[e]),
             p.at \in 6 .. 10 => Startup[p.at][2] \in m,
             UNCHANGED <<database, bounds>>
      PROVE  Kept(r)
  <2>1. q \in Process /\ Fits(q, m, t, e)
    BY <1>2, <1>7, <1>8, <1>9
  <2>2. Become(r, q) /\ UNCHANGED database /\ faults' = faults /\ signals' = signals
    BY <1>1, <1>8, <1>9 DEF bounds
  <2> QED
    BY <1>1, <1>2, <2>1, <2>2, OnlyProcess
<1>10. CASE Load(r)
  <2>1. p.at = 1 /\ UNCHANGED database /\ faults' = faults /\ signals' = signals
    BY <1>4, <1>5, <1>10 DEF Load, bounds
  <2>2. CASE Accepts(settings) /\ Become(r, Advanced(proc[r]))
    <3>1. Accepts(Environments[e])
      BY <1>1, <2>2 DEF settings
    <3> QED
      BY <1>9, <1>10, <2>1, <2>2, <3>1 DEF Load
  <2>3. CASE Abort(r)
    BY <1>2, <2>1, <2>3, AbortKeeps
  <2> QED
    BY <1>10, <2>2, <2>3 DEF Load
<1>11. CASE Acquire(r)
  <2>1. p.at \in 2 .. 4
    BY <1>4, <1>5, <1>11 DEF Acquire
  <2>2. PICK h : h = p.held \cup {Startup[p.at][2]}
    OBVIOUS
  <2>3. h \in SUBSET Holdings /\ "pool" \in h
    BY <1>3, <2>1, <2>2, Tables DEF Holdings
  <2>4. PICK w : w = [Advanced(p) EXCEPT !.held = h]
    OBVIOUS
  <2>5. w \in Process /\ Fits(w, m, t, e)
    BY <1>2, <2>1, <2>3, <2>4, AdvancedFits
  <2>6. [Advanced(p) EXCEPT !.held = @ \cup {Startup[p.at][2]}] = w
    BY <1>2, <1>3, <2>1, <2>2, <2>4, Tables DEF Advanced, Process
  <2>7. Become(r, w) /\ UNCHANGED database /\ faults' = faults /\ signals' = signals
    BY <1>1, <1>4, <1>11, <2>6 DEF Acquire, bounds
  <2> QED
    BY <1>1, <1>2, <2>5, <2>7, OnlyProcess
<1>12. CASE CheckAuth(r)
  <2>1. p.at = 5 /\ UNCHANGED database /\ faults' = faults /\ signals' = signals
    BY <1>4, <1>5, <1>12 DEF CheckAuth, bounds
  <2>2. CASE CanAuthenticate(settings) /\ Become(r, Advanced(proc[r]))
    <3>1. CanAuthenticate(Environments[e])
      BY <1>1, <2>2 DEF settings
    <3> QED
      BY <1>9, <1>12, <2>1, <2>2, <3>1 DEF CheckAuth
  <2>3. CASE Abort(r)
    BY <1>2, <2>1, <2>3, AbortKeeps
  <2> QED
    BY <1>12, <2>2, <2>3 DEF CheckAuth
<1>13. CASE ReadVersions(r)
  <2>1. p.at \in 6 .. 10 /\ UNCHANGED database /\ faults' = faults /\ signals' = signals
    BY <1>4, <1>5, <1>13 DEF ReadVersions, bounds
  <2>2. CASE Step(r)[2] \in migrated
    <3>1. Startup[p.at][2] \in m /\ Become(r, Advanced(proc[r]))
      BY <1>1, <1>4, <1>13, <2>2 DEF ReadVersions
    <3> QED
      BY <1>9, <1>13, <2>1, <3>1 DEF ReadVersions
  <2>3. CASE Step(r)[2] \notin migrated
    <3>1. PICK w : w = [p EXCEPT !.pending = TRUE]
      OBVIOUS
    <3>2. /\ w \in Process /\ w.phase = p.phase /\ w.at = p.at /\ w.held = p.held
          /\ w.subscribed = p.subscribed /\ w.job = p.job
      BY <1>2, <3>1 DEF Process
    <3>3. Fits(w, m, t, e)
      BY <1>2, <3>2 DEF Fits, Prepared, Equipped, Gated, Settled, Supplied
    <3>4. Become(r, w)
      BY <1>1, <1>13, <2>3, <3>1 DEF ReadVersions
    <3> QED
      BY <1>1, <1>2, <2>1, <3>2, <3>3, <3>4, OnlyProcess
  <2> QED
    BY <2>2, <2>3
<1>14. CASE ApplyMigration(r)
  <2>1. /\ p.at \in 6 .. 10 /\ env' = env /\ topics' = topics /\ trade' = trade
        /\ faults' = faults /\ signals' = signals
    BY <1>4, <1>5, <1>14 DEF ApplyMigration, bounds
  <2>2. CASE Abort(r) /\ UNCHANGED migrated
    BY <1>2, <2>1, <2>2, AbortKeeps DEF database
  <2>3. CASE migrated' = migrated \cup {Step(r)[2]} /\ Become(r, Advanced(proc[r]))
    <3>1. PICK n : n = m \cup {Startup[p.at][2]}
      OBVIOUS
    <3>2. n \in SUBSET Contexts /\ m \subseteq n /\ Startup[p.at][2] \in n
      <4>1. \A i \in 6 .. 10 : Startup[i][2] \in Contexts
        BY Tables DEF Contexts
      <4> QED
        BY <1>2, <2>1, <3>1, <4>1
    <3>3. q \in Process /\ Fits(q, n, t, e)
      BY <1>2, <1>7, <1>8, <2>1, <3>2
    <3>4. migrated' = n
      BY <1>1, <1>4, <2>3, <3>1
    <3>5. proc' = [proc EXCEPT ![r] = proc'[r]] /\ proc'[r] = q
      BY <1>1, <1>8, <2>3 DEF Become, IInv, Shape
    <3> QED
      BY <1>1, <1>2, <2>1, <3>2, <3>3, <3>4, <3>5 DEF Kept, IInv, Shape
  <2> QED
    BY <1>14, <2>2, <2>3 DEF ApplyMigration
<1>15. CASE AssembleBus(r)
  BY <1>4, <1>5, <1>9, <1>15 DEF AssembleBus
<1>16. CASE AssembleContext(r)
  <2>1. /\ p.at \in 12 .. 16 /\ env' = env /\ migrated' = migrated /\ trade' = trade
        /\ faults' = faults /\ signals' = signals
    BY <1>4, <1>5, <1>16 DEF AssembleContext, bounds
  <2>2. CASE Abort(r) /\ UNCHANGED topics
    BY <1>2, <2>1, <2>2, AbortKeeps DEF database
  <2>3. CASE topics' = topics \cup Creates(Step(r)[2]) /\ Become(r, Advanced(proc[r]))
    <3>1. PICK u : u = t \cup Creates(Startup[p.at][2])
      OBVIOUS
    <3>2. u \in SUBSET Topics /\ t \subseteq u
      BY <1>2, <3>1 DEF Creates, Topics
    <3>3. q \in Process /\ Fits(q, m, u, e)
      BY <1>2, <1>7, <1>8, <2>1, <3>2
    <3>4. topics' = u
      BY <1>1, <1>4, <2>3, <3>1
    <3>5. proc' = [proc EXCEPT ![r] = proc'[r]] /\ proc'[r] = q
      BY <1>1, <1>8, <2>3 DEF Become, IInv, Shape
    <3> QED
      BY <1>1, <1>2, <2>1, <3>2, <3>3, <3>4, <3>5 DEF Kept, IInv, Shape
  <2> QED
    BY <1>16, <2>2, <2>3 DEF AssembleContext
<1>17. CASE StartupFails(r)
  <2>1. Abort(r) /\ UNCHANGED database /\ faults' \in Nat /\ signals' \in Nat
    BY <1>2, <1>17 DEF StartupFails
  <2> QED
    BY <2>1, AbortKeeps
<1> QED
  BY <1>10, <1>11, <1>12, <1>13, <1>14, <1>15, <1>16, <1>17 DEF StartupStep

-----------------------------------------------------------------------------
(* The running parts and the shutdown.                                     *)

\* What makes a running process fit.
Serves(q, t) ==
  /\ q.phase = "running" /\ "pool" \in q.held /\ q.subscribed \subseteq t
  /\ q.part["router"] = "up" \/ q.part["http"] \in {"up", "draining"} =>
       q.subscribed = Topics
  /\ \A x \in Parts : Ended(q, x) /\ q.job[x] # "none" => x \in q.abandoned
  /\ \A x \in Parts : q.job[x] # "none" => t = Topics

LEMMA RunningFits ==
  ASSUME NEW p, NEW m, NEW t, NEW e, p.phase = "running"
  PROVE  Fits(p, m, t, e) <=> Serves(p, t) /\ Sound(e) /\ m = Contexts
  BY HandledIsAll
     DEF Fits, Prepared, Equipped, Gated, Settled, Supplied, Serves

\* A step of a running process that leaves the database alone.
LEMMA RunningKeeps ==
  ASSUME IInv, NEW r \in Replicas, Running(r), NEW q \in Process, Become(r, q),
         Serves(proc[r], topics) => Serves(q, topics), UNCHANGED database,
         faults' \in Nat, signals' \in Nat
  PROVE  Kept(r)
<1>1. PICK p, m, t, e : p = proc[r] /\ m = migrated /\ t = topics /\ e = env
  OBVIOUS
<1>2. p.phase = "running" /\ Fits(p, m, t, e) /\ (Serves(p, t) => Serves(q, t))
  BY <1>1 DEF Running, IInv
<1>3. Serves(q, t) /\ Sound(e) /\ m = Contexts
  BY <1>2, RunningFits
<1>4. q.phase = "running"
  BY <1>3 DEF Serves
<1>5. Fits(q, m, t, e)
  BY <1>3, <1>4, RunningFits
<1> QED
  BY <1>1, <1>5, OnlyProcess

LEMMA LaunchKeeps ==
  ASSUME IInv, NEW r \in Replicas, Launch(r)
  PROVE  Kept(r)
<1>1. PICK q : q = [NoProcess EXCEPT !.phase = "startup", !.at = 1]
  OBVIOUS
<1>2. /\ q \in Process /\ q.phase = "startup" /\ q.at = 1 /\ q.held = {}
      /\ q.subscribed = {} /\ \A x \in Parts : q.job[x] = "none"
  <2>1. PICK n : n = NoProcess
    OBVIOUS
  <2>2. /\ n \in Process /\ n.held = {} /\ n.subscribed = {}
        /\ \A x \in Parts : n.job[x] = "none"
    BY <2>1, NoProcessIsOne
  <2>3. /\ q \in Process /\ q.phase = "startup" /\ q.at = 1 /\ q.held = n.held
        /\ q.subscribed = n.subscribed /\ q.job = n.job
    <3>1. q = [n EXCEPT !.phase = "startup", !.at = 1] /\ 1 \in 0 .. 16
      BY <1>1, <2>1
    <3> QED
      BY <2>2, <3>1 DEF Process, Phases
  <2> QED
    BY <2>2, <2>3
<1>3. Fits(q, migrated, topics, env)
  BY <1>2 DEF Fits, Prepared, Equipped, Gated, Settled, Supplied
<1>4. /\ Become(r, q) /\ UNCHANGED database /\ faults' \in Nat /\ signals' \in Nat
  BY <1>1 DEF Launch, bounds, IInv, Shape
<1> QED
  BY <1>2, <1>3, <1>4, OnlyProcess

LEMMA KillKeeps ==
  ASSUME IInv, NEW r \in Replicas, Kill(r)
  PROVE  Kept(r)
<1>1. PICK q : q = [NoProcess EXCEPT !.exit = "killed"]
  OBVIOUS
<1>2. /\ q \in Process /\ q.phase = "down" /\ q.held = {} /\ q.subscribed = {}
      /\ \A x \in Parts : q.job[x] = "none"
  BY <1>1, NoProcessIsOne DEF Process
<1>3. Fits(q, migrated, topics, env)
  BY <1>2, NoProcessFits
<1>4. /\ Become(r, q) /\ UNCHANGED database /\ faults' \in Nat /\ signals' \in Nat
  BY <1>1 DEF Kill, IInv, Shape
<1> QED
  BY <1>2, <1>3, <1>4, OnlyProcess

LEMMA SignalKeeps ==
  ASSUME IInv, NEW r \in Replicas, Signal(r)
  PROVE  Kept(r)
<1>1. PICK p, q : p = proc[r] /\ q = [p EXCEPT !.signalled = TRUE]
  OBVIOUS
<1>2. p \in Process /\ Fits(p, migrated, topics, env)
  BY <1>1 DEF IInv, Shape
<1>3. /\ q \in Process /\ q.phase = p.phase /\ q.at = p.at /\ q.held = p.held
      /\ q.subscribed = p.subscribed /\ q.part = p.part /\ q.job = p.job
      /\ q.abandoned = p.abandoned
  BY <1>1, <1>2 DEF Process
<1>4. Fits(q, migrated, topics, env)
  BY <1>2, <1>3 DEF Fits, Prepared, Equipped, Gated, Settled, Supplied, Ended
<1>5. /\ Become(r, q) /\ UNCHANGED database /\ faults' \in Nat /\ signals' \in Nat
  BY <1>1 DEF Signal, IInv, Shape
<1> QED
  BY <1>3, <1>4, <1>5, OnlyProcess

LEMMA SubscribeKeeps ==
  ASSUME IInv, NEW r \in Replicas, NEW t \in Topics, Subscribe(r, t)
  PROVE  Kept(r)
<1>1. PICK p, m, o, e : p = proc[r] /\ m = migrated /\ o = topics /\ e = env
  OBVIOUS
<1>2. /\ p \in Process /\ m \in SUBSET Contexts /\ o \in SUBSET Topics
      /\ Fits(p, m, o, e) /\ p.phase = "running"
  BY <1>1 DEF IInv, Shape, Subscribe, Running
<1>3. PICK u : u = o \cup {t} /\ u \in SUBSET Topics
  BY <1>2
<1>4. Fits(p, m, u, e)
  BY <1>2, <1>3, StillFits
<1>5. Serves(p, u) /\ Sound(e) /\ m = Contexts
  BY <1>2, <1>4, RunningFits
<1>6. PICK s : s = p.subscribed \cup {t} /\ s \in SUBSET Topics
  <2>1. p.subscribed \in SUBSET Topics
    BY <1>2 DEF Process
  <2> QED
    BY <2>1
<1>7. PICK y : y = IF s = Handled THEN "up" ELSE p.part["router"]
  OBVIOUS
<1>8. y \in {"off", "starting", "up", "draining", "done", "failed"}
  BY <1>2, <1>7 DEF Process, Parts, Workers
<1>9. PICK q : q = [p EXCEPT !.subscribed = s, !.part["router"] = y]
  OBVIOUS
<1>10. /\ q \in Process /\ q.phase = "running" /\ q.held = p.held /\ q.subscribed = s
       /\ q.job = p.job /\ q.abandoned = p.abandoned
       /\ q.part = [p.part EXCEPT !["router"] = y]
  BY <1>2, <1>6, <1>8, <1>9 DEF Process
<1>11. /\ q.part["router"] = y
       /\ \A x \in Parts \ {"router"} : q.part[x] = p.part[x]
  BY <1>2, <1>10 DEF Process, Parts, Workers
<1>12. p.part["router"] = "starting"
  BY <1>1 DEF Subscribe
<1>13. "http" \in Parts \ {"router"}
  BY DEF Parts
<1>14. Serves(q, u)
  <2>1. q.subscribed \subseteq u
    BY <1>3, <1>5, <1>6, <1>10 DEF Serves
  <2>2. q.part["router"] = "up" \/ q.part["http"] \in {"up", "draining"} =>
          q.subscribed = Topics
    BY <1>5, <1>6, <1>7, <1>10, <1>11, <1>12, <1>13, HandledIsAll DEF Serves
  <2>3. \A x \in Parts : Ended(q, x) => Ended(p, x)
    BY <1>7, <1>11, <1>12 DEF Ended
  <2> QED
    BY <1>5, <1>10, <2>1, <2>2, <2>3 DEF Serves
<1>15. Fits(q, m, u, e)
  BY <1>5, <1>10, <1>14, RunningFits
<1>16. proc' = [proc EXCEPT ![r] = proc'[r]] /\ proc'[r] = q
  <2>1. Become(r, [p EXCEPT !.subscribed = s,
                            !.part["router"] = IF s = Handled THEN "up" ELSE @])
    BY <1>1, <1>6 DEF Subscribe
  <2>2. [p EXCEPT !.subscribed = s,
                  !.part["router"] = IF s = Handled THEN "up" ELSE @] = q
    BY <1>7, <1>9
  <2> QED
    BY <2>1, <2>2 DEF Become, IInv, Shape
<1>17. /\ topics' = u /\ env' = env /\ migrated' = migrated /\ trade' = trade
       /\ faults' = faults /\ signals' = signals
  BY <1>1, <1>3 DEF Subscribe, bounds
<1> QED
  BY <1>1, <1>2, <1>3, <1>10, <1>15, <1>16, <1>17 DEF Kept, IInv, Shape

\* A part of a running process goes to another state y; the parts in b are
\* given up.
WithPart(p, x, y, b) == [p EXCEPT !.part[x] = y, !.abandoned = @ \cup b]

WithJob(p, x, j) == [p EXCEPT !.job[x] = j]

LEMMA PartMoves ==
  ASSUME NEW p \in Process, NEW x \in Parts, NEW b \in SUBSET Parts,
         NEW y \in {"starting", "up", "draining", "done", "failed"},
         NEW q, q = WithPart(p, x, y, b)
  PROVE  /\ q \in Process /\ q.phase = p.phase /\ q.held = p.held
         /\ q.subscribed = p.subscribed /\ q.job = p.job
         /\ q.abandoned = p.abandoned \cup b
         /\ q.part[x] = y /\ \A z \in Parts \ {x} : q.part[z] = p.part[z]
<1>1. p.part \in [Parts -> {"off", "starting", "up", "draining", "done", "failed"}]
      /\ p.abandoned \in SUBSET Parts
  BY DEF Process
<1>2. PICK g : g = [p.part EXCEPT ![x] = y]
  OBVIOUS
<1>3. /\ g \in [Parts -> {"off", "starting", "up", "draining", "done", "failed"}]
      /\ g[x] = y /\ \A z \in Parts \ {x} : g[z] = p.part[z]
  BY <1>1, <1>2
<1>4. PICK c : c = p.abandoned \cup b /\ c \in SUBSET Parts
  BY <1>1
<1>5. q = [p EXCEPT !.part = g, !.abandoned = c]
  BY <1>2, <1>4 DEF WithPart
<1>6. /\ q \in Process /\ q.phase = p.phase /\ q.held = p.held
      /\ q.subscribed = p.subscribed /\ q.job = p.job
      /\ q.abandoned = c /\ q.part = g
  BY <1>3, <1>4, <1>5 DEF Process
<1> QED
  BY <1>3, <1>4, <1>6

LEMMA PartTurns ==
  ASSUME NEW p \in Process, NEW x \in Parts,
         NEW y \in {"starting", "up", "draining", "done", "failed"},
         NEW q, q = [p EXCEPT !.part[x] = y]
  PROVE  /\ q \in Process /\ q.phase = p.phase /\ q.held = p.held
         /\ q.subscribed = p.subscribed /\ q.job = p.job
         /\ q.abandoned = p.abandoned
         /\ q.part[x] = y /\ \A z \in Parts \ {x} : q.part[z] = p.part[z]
<1>1. p.part \in [Parts -> {"off", "starting", "up", "draining", "done", "failed"}]
  BY DEF Process
<1>2. PICK g : g = [p.part EXCEPT ![x] = y]
  OBVIOUS
<1>3. /\ g \in [Parts -> {"off", "starting", "up", "draining", "done", "failed"}]
      /\ g[x] = y /\ \A z \in Parts \ {x} : g[z] = p.part[z]
  BY <1>1, <1>2
<1>4. q = [p EXCEPT !.part = g]
  BY <1>2
<1>5. /\ q \in Process /\ q.phase = p.phase /\ q.held = p.held
      /\ q.subscribed = p.subscribed /\ q.job = p.job
      /\ q.abandoned = p.abandoned /\ q.part = g
  BY <1>3, <1>4 DEF Process
<1> QED
  BY <1>3, <1>5

\* It still serves if a part that ends leaves no job, or abandons it, and one
\* that opens finds every subscription made.
LEMMA StillServes ==
  ASSUME NEW p, NEW q, NEW t, NEW x \in Parts, Serves(p, t),
         q.phase = p.phase, q.held = p.held, q.subscribed = p.subscribed,
         q.job = p.job, p.abandoned \subseteq q.abandoned,
         \A z \in Parts \ {x} : q.part[z] = p.part[z],
         Ended(q, x) => p.job[x] = "none" \/ x \in q.abandoned,
         q.part[x] \in {"up", "draining"} => p.subscribed = Topics
  PROVE  Serves(q, t)
<1>1. q.part["router"] = "up" \/ q.part["http"] \in {"up", "draining"} =>
        q.subscribed = Topics
  BY DEF Serves, Parts, Workers
<1>2. \A z \in Parts : Ended(q, z) /\ q.job[z] # "none" => z \in q.abandoned
  BY DEF Serves, Ended
<1> QED
  BY <1>1, <1>2 DEF Serves

LEMMA ListenKeeps ==
  ASSUME IInv, NEW r \in Replicas, Listen(r)
  PROVE  Kept(r)
<1>1. PICK p, t, q : p = proc[r] /\ t = topics /\ q = [p EXCEPT !.part["http"] = "up"]
  OBVIOUS
<1>2. p \in Process /\ "http" \in Parts
  BY <1>1 DEF IInv, Shape, Parts
<1>3. /\ q \in Process /\ q.phase = p.phase /\ q.held = p.held
      /\ q.subscribed = p.subscribed /\ q.job = p.job /\ q.abandoned = p.abandoned
      /\ q.part["http"] = "up" /\ \A z \in Parts \ {"http"} : q.part[z] = p.part[z]
  BY <1>1, <1>2, PartTurns
<1>4. p.part["router"] = "up" \/ p.subscribed = Topics
  BY <1>1, HandledIsAll DEF Listen
<1>5. ASSUME Serves(p, t) PROVE Serves(q, t)
  <2>1. p.subscribed = Topics
    BY <1>4, <1>5 DEF Serves
  <2>2. ~Ended(q, "http")
    BY <1>3 DEF Ended
  <2> QED
    BY <1>2, <1>3, <1>5, <2>1, <2>2, StillServes
<1>6. /\ Become(r, q) /\ Running(r) /\ UNCHANGED database
      /\ faults' \in Nat /\ signals' \in Nat
  BY <1>1 DEF Listen, bounds, IInv, Shape
<1> QED
  BY <1>1, <1>3, <1>5, <1>6, RunningKeeps

LEMMA DrainKeeps ==
  ASSUME IInv, NEW r \in Replicas, Drain(r)
  PROVE  Kept(r)
<1>1. PICK p, t, q : /\ p = proc[r] /\ t = topics
                     /\ q = [p EXCEPT !.part["http"] = "draining"]
  OBVIOUS
<1>2. p \in Process /\ "http" \in Parts
  BY <1>1 DEF IInv, Shape, Parts
<1>3. /\ q \in Process /\ q.phase = p.phase /\ q.held = p.held
      /\ q.subscribed = p.subscribed /\ q.job = p.job /\ q.abandoned = p.abandoned
      /\ q.part["http"] = "draining" /\ \A z \in Parts \ {"http"} : q.part[z] = p.part[z]
  BY <1>1, <1>2, PartTurns
<1>4. p.part["http"] = "up"
  BY <1>1 DEF Drain
<1>5. ASSUME Serves(p, t) PROVE Serves(q, t)
  <2>1. p.subscribed = Topics
    BY <1>4, <1>5 DEF Serves
  <2>2. ~Ended(q, "http")
    BY <1>3 DEF Ended
  <2> QED
    BY <1>2, <1>3, <1>5, <2>1, <2>2, StillServes
<1>6. /\ Become(r, q) /\ Running(r) /\ UNCHANGED database
      /\ faults' \in Nat /\ signals' \in Nat
  BY <1>1 DEF Drain, bounds, IInv, Shape
<1> QED
  BY <1>1, <1>3, <1>5, <1>6, RunningKeeps

LEMMA StopKeeps ==
  ASSUME IInv, NEW r \in Replicas, NEW x \in Parts, Stop(r, x)
  PROVE  Kept(r)
<1>1. PICK p, t, q : p = proc[r] /\ t = topics /\ q = [p EXCEPT !.part[x] = "done"]
  OBVIOUS
<1>2. p \in Process
  BY <1>1 DEF IInv, Shape
<1>3. /\ q \in Process /\ q.phase = p.phase /\ q.held = p.held
      /\ q.subscribed = p.subscribed /\ q.job = p.job /\ q.abandoned = p.abandoned
      /\ q.part[x] = "done" /\ \A z \in Parts \ {x} : q.part[z] = p.part[z]
  BY <1>1, <1>2, PartTurns
<1>4. p.job[x] = "none"
  BY <1>1 DEF Stop
<1>5. ASSUME Serves(p, t) PROVE Serves(q, t)
  BY <1>3, <1>4, <1>5, StillServes
<1>6. /\ Become(r, q) /\ Running(r) /\ UNCHANGED database
      /\ faults' \in Nat /\ signals' \in Nat
  BY <1>1 DEF Stop, bounds, IInv, Shape
<1> QED
  BY <1>1, <1>3, <1>5, <1>6, RunningKeeps

LEMMA GiveUpKeeps ==
  ASSUME IInv, NEW r \in Replicas, NEW x \in Parts, GiveUp(r, x)
  PROVE  Kept(r)
<1>1. PICK p, t, y : /\ p = proc[r] /\ t = topics
                     /\ y = IF x = "http" THEN "failed" ELSE "done"
  OBVIOUS
<1>2. PICK q : q = WithPart(p, x, y, {x})
  OBVIOUS
<1>3. p \in Process
  BY <1>1 DEF IInv, Shape
<1>4. /\ q \in Process /\ q.phase = p.phase /\ q.held = p.held
      /\ q.subscribed = p.subscribed /\ q.job = p.job
      /\ q.abandoned = p.abandoned \cup {x}
      /\ q.part[x] = y /\ \A z \in Parts \ {x} : q.part[z] = p.part[z]
  BY <1>1, <1>2, <1>3, PartMoves
<1>5. ASSUME Serves(p, t) PROVE Serves(q, t)
  BY <1>1, <1>4, <1>5, StillServes
<1>6. /\ Become(r, q) /\ Running(r) /\ UNCHANGED database
      /\ faults' \in Nat /\ signals' \in Nat
  BY <1>1, <1>2 DEF WithPart, GiveUp, bounds, IInv, Shape
<1> QED
  BY <1>1, <1>4, <1>5, <1>6, RunningKeeps

LEMMA PartFailsKeeps ==
  ASSUME IInv, NEW r \in Replicas, NEW x \in Parts, PartFails(r, x)
  PROVE  Kept(r)
<1>1. PICK p, t, b : p = proc[r] /\ t = topics /\ b = Busy(proc[r], {x})
  OBVIOUS
<1>2. PICK q : q = WithPart(p, x, "failed", b)
  OBVIOUS
<1>3. p \in Process /\ b \in SUBSET Parts /\ (p.job[x] # "none" => x \in b)
  BY <1>1 DEF IInv, Shape, Busy
<1>4. /\ q \in Process /\ q.phase = p.phase /\ q.held = p.held
      /\ q.subscribed = p.subscribed /\ q.job = p.job
      /\ q.abandoned = p.abandoned \cup b
      /\ q.part[x] = "failed" /\ \A z \in Parts \ {x} : q.part[z] = p.part[z]
  BY <1>2, <1>3, PartMoves
<1>5. ASSUME Serves(p, t) PROVE Serves(q, t)
  BY <1>3, <1>4, <1>5, StillServes
<1>6. /\ Become(r, q) /\ Running(r) /\ UNCHANGED database
      /\ faults' \in Nat /\ signals' \in Nat
  BY <1>1, <1>2 DEF WithPart, PartFails, IInv, Shape
<1> QED
  BY <1>1, <1>4, <1>5, <1>6, RunningKeeps

\* Another job in a part.
LEMMA JobMoves ==
  ASSUME NEW p \in Process, NEW x \in Parts, NEW j \in DOMAIN Jobs \cup {"none"},
         NEW q, q = WithJob(p, x, j)
  PROVE  /\ q \in Process /\ q.phase = p.phase /\ q.at = p.at /\ q.held = p.held
         /\ q.subscribed = p.subscribed /\ q.part = p.part
         /\ q.abandoned = p.abandoned
         /\ q.job[x] = j /\ \A z \in Parts \ {x} : q.job[z] = p.job[z]
<1>1. PICK J : J = DOMAIN Jobs \cup {"none"}
  OBVIOUS
<1>2. p.job \in [Parts -> J]
  BY <1>1 DEF Process
<1>3. PICK g : g = [p.job EXCEPT ![x] = j]
  OBVIOUS
<1>4. g \in [Parts -> J] /\ g[x] = j /\ \A z \in Parts \ {x} : g[z] = p.job[z]
  BY <1>1, <1>2, <1>3
<1>5. q = [p EXCEPT !.job = g]
  BY <1>3 DEF WithJob
<1>6. /\ q \in Process /\ q.phase = p.phase /\ q.at = p.at /\ q.held = p.held
      /\ q.subscribed = p.subscribed /\ q.part = p.part
      /\ q.abandoned = p.abandoned /\ q.job = g
  BY <1>1, <1>4, <1>5 DEF Process
<1> QED
  BY <1>4, <1>6

\* A job begins: in a listener, whose process has subscribed to everything,
\* or in a worker, for which a trade must be under way.
LEMMA BeginJobKeeps ==
  ASSUME IInv, NEW r \in Replicas, NEW j \in DOMAIN Jobs, BeginJob(r, j)
  PROVE  Kept(r)
<1>1. PICK p, t, x, q : /\ p = proc[r] /\ t = topics /\ x = Jobs[j].by
                        /\ q = WithJob(p, x, j)
  OBVIOUS
<1>2. p \in Process /\ x \in Parts
  BY <1>1, JobFacts DEF IInv, Shape
<1>3. /\ q \in Process /\ q.phase = p.phase /\ q.held = p.held
      /\ q.subscribed = p.subscribed /\ q.part = p.part /\ q.abandoned = p.abandoned
      /\ q.job[x] = j /\ \A z \in Parts \ {x} : q.job[z] = p.job[z]
  BY <1>1, <1>2, JobMoves
<1>4. p.part[x] = "up" \/ (x = "router" /\ p.part[x] = "starting")
  BY <1>1 DEF BeginJob
<1>5. ASSUME Serves(p, t) PROVE Serves(q, t)
  <2>1. t = Topics
    <3>1. CASE x = "http"
      <4>1. p.subscribed = Topics /\ p.subscribed \subseteq t /\ t \subseteq Topics
        BY <1>1, <1>4, <1>5, <3>1 DEF Serves, IInv, Shape
      <4> QED
        BY <4>1
    <3>2. CASE x # "http"
      <4>1. trade # "none"
        BY <1>1, <3>2, JobFacts DEF BeginJob
      <4> QED
        BY <1>1, <4>1 DEF IInv
    <3> QED
      BY <3>1, <3>2
  <2>2. \A z \in Parts : Ended(q, z) <=> Ended(p, z)
    BY <1>3 DEF Ended
  <2>3. ~Ended(p, x)
    BY <1>4 DEF Ended
  <2>4. \A z \in Parts : Ended(q, z) /\ q.job[z] # "none" => z \in q.abandoned
    BY <1>3, <1>5, <2>2, <2>3 DEF Serves
  <2> QED
    BY <1>3, <1>5, <2>1, <2>4 DEF Serves
<1>6. /\ Become(r, q) /\ Running(r) /\ UNCHANGED database
      /\ faults' \in Nat /\ signals' \in Nat
  BY <1>1 DEF WithJob, BeginJob, bounds, IInv, Shape
<1> QED
  BY <1>1, <1>3, <1>5, <1>6, RunningKeeps

\* A job ends, in any phase: it had its topic, so the trade may go on.
LEMMA EndJobKeeps ==
  ASSUME IInv, NEW r \in Replicas, NEW x \in Parts, EndJob(r, x)
  PROVE  Kept(r)
<1>1. PICK p, m, t, e : p = proc[r] /\ m = migrated /\ t = topics /\ e = env
  OBVIOUS
<1>2. PICK q : q = WithJob(p, x, "none")
  OBVIOUS
<1>3. p \in Process /\ Fits(p, m, t, e) /\ p.job[x] # "none"
  BY <1>1 DEF IInv, Shape, EndJob
<1>4. /\ q \in Process /\ q.phase = p.phase /\ q.at = p.at /\ q.held = p.held
      /\ q.subscribed = p.subscribed /\ q.part = p.part /\ q.abandoned = p.abandoned
      /\ q.job[x] = "none" /\ \A z \in Parts \ {x} : q.job[z] = p.job[z]
  BY <1>2, <1>3, JobMoves
<1>5. Fits(q, m, t, e)
  <2>1. Prepared(q, m, e) /\ Equipped(q) /\ Gated(q, m, t, e)
    BY <1>3, <1>4 DEF Fits, Prepared, Equipped, Gated
  <2>2. Settled(q)
    BY <1>3, <1>4 DEF Fits, Settled, Ended
  <2>3. Supplied(q, m, t, e)
    BY <1>3, <1>4 DEF Fits, Supplied
  <2> QED
    BY <2>1, <2>2, <2>3 DEF Fits
<1>6. t = Topics
  BY <1>3 DEF Fits, Supplied
<1>7. p.job[x] \in DOMAIN Jobs
  BY <1>3 DEF Process
<1>8. trade' \in {"none", "listed", "closed", "invoiced", "over"}
  BY <1>1, <1>7, JobFacts DEF EndJob, IInv, Shape
<1>9. /\ env' = env /\ migrated' = migrated /\ topics' = topics
      /\ faults' = faults /\ signals' = signals
      /\ proc' = [proc EXCEPT ![r] = proc'[r]] /\ proc'[r] = q
  BY <1>1, <1>2 DEF WithJob, EndJob, bounds, Become, IInv, Shape
<1> QED
  BY <1>1, <1>4, <1>5, <1>6, <1>8, <1>9 DEF Kept, IInv, Shape

LEMMA FlushKeeps ==
  ASSUME IInv, NEW r \in Replicas, Flush(r)
  PROVE  Kept(r)
<1>1. PICK p, m, t, e, c : /\ p = proc[r] /\ m = migrated /\ t = topics /\ e = env
                           /\ c = ExitCode(proc[r])
  OBVIOUS
<1>2. PICK n : n = NoProcess
  OBVIOUS
<1>3. PICK q : q = [n EXCEPT !.phase = "flushed", !.held = {"pool"}, !.exit = c,
                             !.signalled = p.signalled, !.job = p.job,
                             !.abandoned = p.abandoned]
  OBVIOUS
<1>4. /\ p \in Process /\ Fits(p, m, t, e) /\ p.phase = "running"
      /\ \A x \in Parts : Ended(p, x)
  BY <1>1 DEF IInv, Shape, Flush, Running
<1>5. n \in Process /\ n.subscribed = {}
  BY <1>2, NoProcessIsOne
<1>6. p.job \in [Parts -> DOMAIN Jobs \cup {"none"}] /\ p.abandoned \in SUBSET Parts
  BY <1>4 DEF Process
<1>7. p.signalled \in BOOLEAN
  BY <1>4, Zenon DEF Process
<1>8. c \in {"none", "ok", "error", "killed"} /\ {"pool"} \in SUBSET Holdings
  BY <1>1 DEF ExitCode, Holdings
<1>9. /\ q \in Process /\ q.phase = "flushed" /\ q.held = {"pool"} /\ q.subscribed = {}
      /\ q.job = p.job /\ q.abandoned = p.abandoned
  BY <1>3, <1>5, <1>6, <1>7, <1>8 DEF Process, Phases
<1>10. Serves(p, t) /\ Sound(e) /\ m = Contexts
  BY <1>4, RunningFits
<1>11. Fits(q, m, t, e)
  <2>1. Prepared(q, m, e) /\ Equipped(q) /\ Gated(q, m, t, e)
    BY <1>9 DEF Prepared, Equipped, Gated
  <2>2. Settled(q)
    BY <1>4, <1>9, <1>10 DEF Settled, Serves
  <2>3. Supplied(q, m, t, e)
    BY <1>9, <1>10 DEF Supplied, Serves
  <2> QED
    BY <2>1, <2>2, <2>3 DEF Fits
<1>12. /\ Become(r, q) /\ UNCHANGED database /\ faults' \in Nat /\ signals' \in Nat
  BY <1>1, <1>2, <1>3 DEF Flush, bounds, IInv, Shape
<1> QED
  BY <1>1, <1>9, <1>11, <1>12, OnlyProcess

LEMMA ClosePoolKeeps ==
  ASSUME IInv, NEW r \in Replicas, ClosePool(r)
  PROVE  Kept(r)
<1>1. PICK p, m, t, e : p = proc[r] /\ m = migrated /\ t = topics /\ e = env
  OBVIOUS
<1>2. PICK q : q = [p EXCEPT !.phase = "closed", !.held = @ \ {"pool"}]
  OBVIOUS
<1>3. p \in Process /\ Fits(p, m, t, e) /\ p.phase = "flushed"
  BY <1>1 DEF IInv, Shape, ClosePool
<1>4. p.held = {"pool"}
  BY <1>3 DEF Fits, Equipped
<1>5. /\ q \in Process /\ q.phase = "closed" /\ q.held = {}
      /\ q.subscribed = p.subscribed /\ q.job = p.job /\ q.abandoned = p.abandoned
  <2>1. q = [p EXCEPT !.phase = "closed", !.held = {}]
    BY <1>2, <1>3, <1>4 DEF Process
  <2> QED
    BY <1>3, <2>1 DEF Process, Phases
<1>6. Fits(q, m, t, e)
  <2>1. Prepared(q, m, e) /\ Equipped(q) /\ Gated(q, m, t, e)
    BY <1>3, <1>5 DEF Fits, Prepared, Equipped, Gated
  <2>2. Settled(q) /\ Supplied(q, m, t, e)
    BY <1>3, <1>5 DEF Fits, Settled, Supplied
  <2> QED
    BY <2>1, <2>2 DEF Fits
<1>7. /\ Become(r, q) /\ UNCHANGED database /\ faults' \in Nat /\ signals' \in Nat
  BY <1>1, <1>2 DEF ClosePool, bounds, IInv, Shape
<1> QED
  BY <1>1, <1>5, <1>6, <1>7, OnlyProcess

LEMMA ExitKeeps ==
  ASSUME IInv, NEW r \in Replicas, Exit(r)
  PROVE  Kept(r)
<1>1. PICK p, n : p = proc[r] /\ n = NoProcess
  OBVIOUS
<1>2. PICK q : q = [n EXCEPT !.exit = p.exit, !.held = p.held,
                             !.signalled = p.signalled]
  OBVIOUS
<1>3. p \in Process /\ Fits(p, migrated, topics, env) /\ p.phase = "closed"
  BY <1>1 DEF IInv, Shape, Exit
<1>4. /\ n \in Process /\ n.phase = "down" /\ n.subscribed = {}
      /\ \A x \in Parts : n.job[x] = "none"
  BY <1>1, NoProcessIsOne
<1>5. p.held = {} /\ p.held \in SUBSET Holdings /\ p.exit \in {"none", "ok", "error", "killed"}
  BY <1>3 DEF Fits, Equipped, Process
<1>6. p.signalled \in BOOLEAN
  BY <1>3, Zenon DEF Process
<1>7. /\ q \in Process /\ q.phase = n.phase /\ q.held = p.held
      /\ q.subscribed = n.subscribed /\ q.job = n.job
  BY <1>2, <1>4, <1>5, <1>6 DEF Process
<1>8. Fits(q, migrated, topics, env)
  BY <1>4, <1>5, <1>7, NoProcessFits
<1>9. /\ Become(r, q) /\ UNCHANGED database /\ faults' \in Nat /\ signals' \in Nat
  BY <1>1, <1>2 DEF Exit, bounds, IInv, Shape
<1> QED
  BY <1>7, <1>8, <1>9, OnlyProcess

-----------------------------------------------------------------------------
(* The theorems.                                                           *)

LEMMA InitIInv == Init => IInv
<1> SUFFICES ASSUME Init PROVE IInv
  OBVIOUS
<1>1. PICK n : n = NoProcess
  OBVIOUS
<1>2. /\ n \in Process /\ n.phase = "down" /\ n.held = {} /\ n.subscribed = {}
      /\ \A x \in Parts : n.job[x] = "none"
  BY <1>1, NoProcessIsOne
<1>3. Fits(n, migrated, topics, env)
  BY <1>2, NoProcessFits
<1>4. proc = [r \in Replicas |-> n]
  BY <1>1 DEF Init
<1>5. Shape
  BY <1>2, <1>4 DEF Init, Shape
<1>6. \A r \in Replicas : Fits(proc[r], migrated, topics, env)
  BY <1>3, <1>4
<1> QED
  BY <1>5, <1>6 DEF IInv, Init

LEMMA EveryStepKeeps ==
  ASSUME IInv, Next
  PROVE  \E r \in Replicas : Kept(r)
<1>1. PICK r \in Replicas :
        \/ Launch(r) \/ StartupStep(r) \/ Listen(r) \/ Signal(r) \/ Kill(r)
        \/ \E t \in Topics : Subscribe(r, t)
        \/ \E x \in {"router", "http"} : PartFails(r, x)
        \/ \E j \in DOMAIN Jobs : BeginJob(r, j)
        \/ \E x \in Parts : EndJob(r, x)
        \/ ShutdownStep(r)
  BY DEF Next
<1>2. {"router", "http"} \subseteq Parts
  BY DEF Parts, Workers
<1>3. CASE ShutdownStep(r)
  BY <1>3, DrainKeeps, FlushKeeps, ClosePoolKeeps, ExitKeeps, StopKeeps, GiveUpKeeps
     DEF ShutdownStep
<1>4. CASE \E x \in {"router", "http"} : PartFails(r, x)
  BY <1>2, <1>4, PartFailsKeeps
<1> QED
  BY <1>1, <1>3, <1>4, LaunchKeeps, StartupKeeps, ListenKeeps, SignalKeeps, KillKeeps,
     SubscribeKeeps, BeginJobKeeps, EndJobKeeps

LEMMA Inductive == IInv /\ [Next]_vars => IInv'
<1> SUFFICES ASSUME IInv, [Next]_vars PROVE IInv'
  OBVIOUS
<1>1. CASE UNCHANGED vars
  BY <1>1 DEF vars, IInv, Shape
<1>2. CASE Next
  <2>1. PICK r \in Replicas : Kept(r)
    BY <1>2, EveryStepKeeps
  <2>2. Shape'
    BY <2>1 DEF Kept, IInv, Shape
  <2>3. PICK m, t, e, n, u : /\ m = migrated /\ t = topics /\ e = env
                             /\ n = migrated' /\ u = topics'
    OBVIOUS
  <2>4. /\ m \in SUBSET Contexts /\ t \in SUBSET Topics /\ n \in SUBSET Contexts
        /\ u \in SUBSET Topics /\ m \subseteq n /\ t \subseteq u /\ env' = e
    BY <2>1, <2>3 DEF Kept, IInv, Shape
  <2>5. \A k \in Replicas : Fits(proc'[k], n, u, e)
    <3> TAKE k \in Replicas
    <3>1. CASE k = r
      BY <2>1, <2>3, <3>1 DEF Kept
    <3>2. CASE k # r
      <4>1. PICK p : p = proc[k]
        OBVIOUS
      <4>2. Fits(p, m, t, e)
        BY <2>3, <4>1 DEF IInv
      <4>3. Fits(p, n, u, e)
        BY <2>4, <4>2, StillFits
      <4>4. proc'[k] = p
        BY <2>1, <3>2, <4>1 DEF Kept, IInv, Shape
      <4> QED
        BY <4>3, <4>4
    <3> QED
      BY <3>1, <3>2
  <2>6. trade' # "none" => topics' = Topics
    BY <2>1 DEF Kept
  <2> QED
    BY <2>2, <2>3, <2>4, <2>5, <2>6 DEF IInv
<1> QED
  BY <1>1, <1>2

LEMMA Always == Spec => []IInv
  BY InitIInv, Inductive, PTL DEF Spec

\* The state has its type in every process and in the database.
THEOREM TypeCorrect == Spec => []Shape
<1>1. IInv => Shape
  BY DEF IInv
<1> QED
  BY <1>1, Always, PTL

\* newApplication, the BusRunning gate of main and the workers' empty first
\* ticks: whatever a request, a tick or a message works with exists before it,
\* however the starts, crashes and restarts of the replicas interleave.
THEOREM TablesFound == Spec => []WorkFindsItsTables
<1>1. IInv => WorkFindsItsTables
  <2> SUFFICES ASSUME IInv, NEW r \in Replicas, NEW x \in Busy(proc[r], Parts)
               PROVE  /\ Configured /\ migrated = Contexts
                      /\ Jobs[proc[r].job[x]].topic \in topics
    BY DEF WorkFindsItsTables
  <2>1. x \in Parts /\ proc[r].job[x] # "none"
    BY DEF Busy
  <2>2. Sound(env) /\ migrated = Contexts /\ topics = Topics
    BY <2>1 DEF IInv, Fits, Supplied
  <2>3. proc[r].job[x] \in DOMAIN Jobs
    BY <2>1 DEF IInv, Shape, Process
  <2> QED
    BY <2>2, <2>3, JobFacts DEF Configured, settings, Sound
<1> QED
  BY <1>1, Always, PTL

\* The deferred calls of run and the error paths of NewApplication: the pool
\* goes last, and only jobs that were given up can still be using it.
THEOREM ReleaseCorrect == Spec => []ReleasedInOrder
<1>1. IInv => ReleasedInOrder
  <2> SUFFICES ASSUME IInv, NEW r \in Replicas
               PROVE  /\ "pool" \notin proc[r].held =>
                           Busy(proc[r], Parts) \subseteq proc[r].abandoned
                           /\ proc[r].held = {}
                      /\ proc[r].phase = "down" => proc[r].held = {}
    BY DEF ReleasedInOrder
  <2>1. PICK p : p = proc[r]
    OBVIOUS
  <2>2. p \in Process /\ Equipped(p) /\ Settled(p)
    BY <2>1 DEF IInv, Shape, Fits
  <2>3. p.phase \in Phases
    BY <2>2 DEF Process
  <2>4. "pool" \notin p.held =>
          p.held = {} /\ p.phase \in {"startup", "closed", "down"}
    BY <2>2, <2>3 DEF Equipped, Phases
  <2>5. "pool" \notin p.held => Busy(p, Parts) \subseteq p.abandoned
    BY <2>2, <2>4 DEF Settled, Busy
  <2>6. p.phase = "down" => p.held = {}
    BY <2>2 DEF Equipped
  <2> QED
    BY <2>1, <2>4, <2>5, <2>6
<1> QED
  BY <1>1, Always, PTL
=============================================================================
