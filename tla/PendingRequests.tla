-------------------------- MODULE PendingRequests --------------------------
(***************************************************************************)
(* Questions and permission requests that wait for a human, answered from  *)
(* any process: question/index.ts, permission/index.ts and the pending     *)
(* rows of core/runtime-state/index.ts.                                    *)
(*                                                                         *)
(* The asking process keeps the request in memory (entry) with a Deferred  *)
(* and mirrors it as a row of the SQLite store all processes share.  A     *)
(* reply that reaches the asking process settles the row and then the      *)
(* Deferred; one that reaches another process only settles the row, which  *)
(* the ask's reconcile loop polls.  Every store call suspends its caller,  *)
(* so each is a step; any of them may fail, which bestEffort turns into    *)
(* "as if there were no store".  Time is abstracted to whether a row is    *)
(* older than TTL_MS: Lapse makes it so at any moment, a heartbeat undoes  *)
(* it.                                                                     *)
(***************************************************************************)
EXTENDS Integers, Sequences, FiniteSets

CONSTANTS
    Questions,    \* question ids
    Permissions,  \* permission request ids
    Calls,        \* reply or reject requests that arrive over HTTP
    Procs,        \* engine processes that share the store
    Home,         \* [request -> the process that asks it]
    SessionOf,    \* [request -> its session]
    PatternOf,    \* [permission -> its one pattern, also its "always" list]
    Answers,      \* what a question can be answered with
    MaxMishaps,   \* failed store calls, lapses, aborts, disposals and crashes
    None          \* no request, process or choice

Requests == Questions \cup Permissions
Choices  == Answers \cup {"once", "always", "reject"}
ChoicesOf(r) == IF r \in Questions THEN Answers \cup {"reject"}
                                   ELSE {"once", "always", "reject"}
\* A permission's reconcile loop replies through the same code as a call.
Replies  == Calls \cup Permissions

ASSUME RequestsAssumption ==
    /\ Questions \cap Permissions = {}
    /\ Calls \cap Requests = {}
    /\ Home \in [Requests -> Procs]
    /\ MaxMishaps \in Nat
    /\ None \notin Requests \cup Procs \cup Choices
    /\ Answers \cap {"once", "always", "reject", "open", "absent", "pending",
                   "unset", "gone", "none", "allow", "deny", "interrupt"} = {}

VARIABLES
    row,       \* [r] the store's row: "absent", "pending" or the resolution
    stale,     \* [r] the row's time_heartbeat (pending) or time_updated is old
    entry,     \* the requests held in their process's pending map
    deferred,  \* [r] the Deferred of the ask: "open" or its outcome
    approved,  \* [p] the patterns process p approved for good
    ask,       \* [r] where the ask stands
    rec,       \* [r] where its reconcile loop stands
    seen,      \* [r] the resolution the reconcile loop read
    result,    \* [r] what the ask returned
    call,      \* [c] the reply c: where it stands, what it carries
    told,      \* [r] the Replied and Rejected events published for r
    up,        \* processes that run
    mishaps,   \* how many of those happened so far
    hurt       \* history: requests whose row was pruned, or that a store
               \* call failed for or did not find

askVars == <<ask, rec, seen, result>>
vars == <<row, stale, entry, deferred, approved, askVars, call, told, up,
          mishaps, hurt>>

Idle == [at |-> "idle", req |-> None, proc |-> None, choice |-> None,
         held |-> FALSE, answer |-> None]

CallRecords == [at : {"idle", "lookup", "settle", "update", "apply", "cascade",
                      "over"},
                req : Requests \cup {None}, proc : Procs \cup {None},
                choice : Choices \cup {None}, held : BOOLEAN,
                answer : {None, "applied", "recorded", "settled", "NotFound",
                          "lost"}]

TypeOK ==
    /\ row \in [Requests -> {"absent", "pending"} \cup Choices]
    /\ stale \in [Requests -> BOOLEAN]
    /\ entry \subseteq Requests
    /\ deferred \in [Requests -> {"open"} \cup Choices]
    /\ approved \in [Procs -> SUBSET {PatternOf[m] : m \in Permissions}]
    /\ ask \in [Requests -> {"new", "prune", "insert", "publish", "wait",
                             "cleanup", "over", "cut", "dead"}]
    /\ rec \in [Requests -> {"off", "poll", "apply", "await"}]
    /\ seen \in [Requests -> Choices \cup {None}]
    /\ result \in [Requests -> Choices \cup {"none", "allow", "deny", "interrupt"}]
    /\ call \in [Replies -> CallRecords]
    /\ told \in [Requests -> Seq(Choices)]
    /\ up \subseteq Procs
    /\ mishaps \in 0 .. MaxMishaps
    /\ hurt \subseteq Requests

Init ==
    /\ row = [r \in Requests |-> "absent"]
    /\ stale = [r \in Requests |-> FALSE]
    /\ entry = {}
    /\ deferred = [r \in Requests |-> "open"]
    /\ approved = [p \in Procs |-> {}]
    /\ ask = [r \in Requests |-> "new"]
    /\ rec = [r \in Requests |-> "off"]
    /\ seen = [r \in Requests |-> None]
    /\ result = [r \in Requests |-> "none"]
    /\ call = [c \in Replies |-> Idle]
    /\ told = [r \in Requests |-> <<>>]
    /\ up = Procs
    /\ mishaps = 0
    /\ hurt = {}

-----------------------------------------------------------------------------
(* The store: core/runtime-state/index.ts                                  *)

Settled(r) == row[r] \notin {"absent", "pending"}

\* Things go wrong a bounded number of times.
Mishap == mishaps < MaxMishaps /\ mishaps' = mishaps + 1

(* One store call under bestEffort.  A call that fails changes nothing and *)
(* its caller goes on without it; missed are the requests it leaves hurt.  *)
Store(ok, missed) ==
    /\ IF ok THEN UNCHANGED mishaps ELSE Mishap
    /\ hurt' = hurt \cup missed

\* recordPending, first statement: the session's lapsed rows are deleted.
Expired(r) == {x \in Requests : /\ SessionOf[x] = SessionOf[r]
                                /\ row[x] # "absent"
                                /\ stale[x]}

\* recordPending, second statement: insert, or do nothing on a conflict.
Insert(r) ==
    /\ row' = [row EXCEPT ![r] = IF @ = "absent" THEN "pending" ELSE @]
    /\ stale' = [stale EXCEPT ![r] = IF row[r] = "absent" THEN FALSE ELSE @]

\* Mutant: the update of settlePending does not ask for a pending row.
UpdateAnyState(r, v) ==
    /\ row' = [row EXCEPT ![r] = IF @ = "absent" THEN @ ELSE v]
    /\ stale' = [stale EXCEPT ![r] = FALSE]

\* settlePending, second statement: an update of a row that is still pending.
Update(r, v) ==
    /\ row' = [row EXCEPT ![r] = IF @ = "pending" THEN v ELSE @]
    /\ stale' = [stale EXCEPT ![r] = IF row[r] = "pending" THEN FALSE ELSE @]

\* Mutant: the ask-exit cleanup leaves the row behind.
DiscardNothing(r) == row' = row

\* discardPending: only a row that is still pending goes.
Discard(r) == row' = [row EXCEPT ![r] = IF @ = "pending" THEN "absent" ELSE @]

\* heartbeatPending by the owner; time_updated is not touched.
Heartbeat(r) ==
    /\ row[r] = "pending"
    /\ stale' = [stale EXCEPT ![r] = FALSE]

\* TTL_MS passes without a heartbeat, or since the row was settled.
Lapse(r) ==
    /\ row[r] # "absent"
    /\ ~stale[r]
    /\ Mishap
    /\ stale' = [stale EXCEPT ![r] = TRUE]
    /\ UNCHANGED <<row, entry, deferred, approved, askVars, call, told, up, hurt>>

-----------------------------------------------------------------------------
(* ask                                                                     *)

Runs(r) == Home[r] \in up

(* Permission.ask evaluates the configured rules and then the approved     *)
(* ones, the last match wins: an approved pattern is allowed, anything     *)
(* else is what the configuration says.                                    *)
Evaluate(r) == IF PatternOf[r] \in approved[Home[r]] THEN {"allow"}
                                                     ELSE {"allow", "deny", "ask"}

Ask(r) ==
    /\ Runs(r) /\ ask[r] = "new"
    /\ \E rule \in IF r \in Questions THEN {"ask"} ELSE Evaluate(r) :
          /\ entry' = IF rule = "ask" THEN entry \cup {r} ELSE entry
          /\ ask' = [ask EXCEPT ![r] = IF rule = "ask" THEN "prune" ELSE "over"]
          /\ result' = [result EXCEPT ![r] = IF rule = "ask" THEN @ ELSE rule]
    /\ UNCHANGED <<row, stale, deferred, approved, rec, seen, call, told, up,
                   mishaps, hurt>>

PruneRows(r) ==
    /\ Runs(r) /\ ask[r] = "prune"
    /\ \E ok \in BOOLEAN :
          /\ Store(ok, IF ok THEN Expired(r) ELSE {r})
          /\ row' = [x \in Requests |-> IF ok /\ x \in Expired(r) THEN "absent"
                                                                   ELSE row[x]]
          /\ ask' = [ask EXCEPT ![r] = IF ok THEN "insert" ELSE "publish"]
    /\ UNCHANGED <<stale, entry, deferred, approved, rec, seen, result, call,
                   told, up>>

InsertRow(r) ==
    /\ Runs(r) /\ ask[r] = "insert"
    /\ \E ok \in BOOLEAN :
          /\ Store(ok, IF ok THEN {} ELSE {r})
          /\ IF ok THEN Insert(r) ELSE UNCHANGED <<row, stale>>
    /\ ask' = [ask EXCEPT ![r] = "publish"]
    /\ UNCHANGED <<entry, deferred, approved, rec, seen, result, call, told, up>>

\* Publish Asked, then race the Deferred against the reconcile loop.
StartWait(r) ==
    /\ Runs(r) /\ ask[r] = "publish"
    /\ ask' = [ask EXCEPT ![r] = "wait"]
    /\ rec' = [rec EXCEPT ![r] = "poll"]
    /\ UNCHANGED <<row, stale, entry, deferred, approved, seen, result, call,
                   told, up, mishaps, hurt>>

\* The race ends once the loser, which a reply in the loop can hold, has ended.
Leave(r, how) ==
    /\ Runs(r) /\ ask[r] = "wait"
    /\ r \in Permissions => call[r].at \in {"idle", "over"}
    /\ result' = [result EXCEPT ![r] = how]
    /\ ask' = [ask EXCEPT ![r] = "cleanup"]
    /\ rec' = [rec EXCEPT ![r] = "off"]
    /\ entry' = entry \ {r}
    /\ UNCHANGED <<row, stale, deferred, approved, seen, call, told, up, hurt>>

\* The Deferred completed.
Wake(r) == deferred[r] # "open" /\ Leave(r, deferred[r]) /\ UNCHANGED mishaps

\* The turn is aborted while it waits.
Interrupt(r) == Mishap /\ Leave(r, "interrupt")

(* The turn is aborted before the wait has begun: no cleanup is set up yet, *)
(* the entry and what is in the store stay.  What runs under a mask that   *)
(* keeps interrupts out takes this step later, as Interrupt.               *)
Abandon(r) ==
    /\ Runs(r) /\ ask[r] \in {"prune", "insert", "publish"} /\ Mishap
    /\ result' = [result EXCEPT ![r] = "interrupt"]
    /\ ask' = [ask EXCEPT ![r] = "cut"]
    /\ UNCHANGED <<row, stale, entry, deferred, approved, rec, seen, call, told,
                   up, hurt>>

Cleanup(r) ==
    /\ Runs(r) /\ ask[r] = "cleanup"
    /\ \E ok \in BOOLEAN :
          /\ Store(ok, IF ok THEN {} ELSE {r})
          /\ IF ok THEN Discard(r) ELSE UNCHANGED row
    /\ ask' = [ask EXCEPT ![r] = "over"]
    /\ UNCHANGED <<stale, entry, deferred, approved, rec, seen, result, call,
                   told, up>>

-----------------------------------------------------------------------------
(* Applying an outcome in the asking process                               *)

\* The Deferred keeps its first outcome.
Complete(d, r, v) == [d EXCEPT ![r] = IF @ = "open" THEN v ELSE @]

\* Mutant: the memory-hit core publishes without looking at the map again.
ApplyQuestionAlways(r, v) ==
    /\ entry' = entry \ {r}
    /\ told' = [told EXCEPT ![r] = Append(@, v)]
    /\ deferred' = Complete(deferred, r, v)

(* Question.applyReply and applyReject: look the entry up again, remove    *)
(* it, publish, complete the Deferred.                                     *)
ApplyQuestion(r, v) ==
    IF r \in entry
       THEN /\ entry' = entry \ {r}
            /\ told' = [told EXCEPT ![r] = Append(@, v)]
            /\ deferred' = Complete(deferred, r, v)
       ELSE UNCHANGED <<entry, told, deferred>>

\* Mutant: the reject branch falls through to the rules of an "always".
ApplyPermissionFallsThrough(r, v) ==
    /\ entry' = entry \ {r}
    /\ told' = [told EXCEPT ![r] = Append(@, v)]
    /\ deferred' = Complete(deferred, r, v)
    /\ approved' = [approved EXCEPT ![Home[r]] =
                       IF v = "once" THEN @ ELSE @ \cup {PatternOf[r]}]

\* Permission.applyReply up to its cascade; the entry is the caller's.
ApplyPermission(r, v) ==
    /\ entry' = entry \ {r}
    /\ told' = [told EXCEPT ![r] = Append(@, v)]
    /\ deferred' = Complete(deferred, r, v)
    /\ approved' = [approved EXCEPT ![Home[r]] =
                       IF v = "always" THEN @ \cup {PatternOf[r]} ELSE @]

-----------------------------------------------------------------------------
(* The reconcile loop                                                      *)

\* Mutant: the heartbeat inserts a row that is not there.
BeatUpserts(r) ==
    /\ Runs(r) /\ ask[r] = "wait" /\ rec[r] = "poll"
    /\ ~Settled(r)
    /\ row' = [row EXCEPT ![r] = "pending"]
    /\ stale' = [stale EXCEPT ![r] = FALSE]
    /\ UNCHANGED <<entry, deferred, approved, askVars, call, told, up, mishaps,
                   hurt>>

Beat(r) ==
    /\ Runs(r) /\ ask[r] = "wait" /\ rec[r] = "poll"
    /\ Heartbeat(r)
    /\ UNCHANGED <<row, entry, deferred, approved, askVars, call, told, up,
                   mishaps, hurt>>

\* Mutant: the loop applies a row whatever its state.
ReadRowAny(r) ==
    /\ Runs(r) /\ ask[r] = "wait" /\ rec[r] = "poll"
    /\ row[r] # "absent"
    /\ seen' = [seen EXCEPT ![r] = row[r]]
    /\ rec' = [rec EXCEPT ![r] = "apply"]
    /\ UNCHANGED <<row, stale, entry, deferred, approved, ask, result, call,
                   told, up, mishaps, hurt>>

\* Mutant: the loop looks for replies only, not for rejections.
ReadRowReplied(r) ==
    /\ Runs(r) /\ ask[r] = "wait" /\ rec[r] = "poll"
    /\ Settled(r) /\ row[r] # "reject"
    /\ seen' = [seen EXCEPT ![r] = row[r]]
    /\ rec' = [rec EXCEPT ![r] = "apply"]
    /\ UNCHANGED <<row, stale, entry, deferred, approved, ask, result, call,
                   told, up, mishaps, hurt>>

\* A poll that finds the row settled; any other sleeps and polls again.
ReadRow(r) ==
    /\ Runs(r) /\ ask[r] = "wait" /\ rec[r] = "poll"
    /\ Settled(r)
    /\ seen' = [seen EXCEPT ![r] = row[r]]
    /\ rec' = [rec EXCEPT ![r] = "apply"]
    /\ UNCHANGED <<row, stale, entry, deferred, approved, ask, result, call,
                   told, up, mishaps, hurt>>

\* A question applies what it read, a permission replies to itself.
Reconcile(r) ==
    /\ Runs(r) /\ ask[r] = "wait" /\ rec[r] = "apply"
    /\ rec' = [rec EXCEPT ![r] = "await"]
    /\ IF r \in Questions
          THEN /\ ApplyQuestion(r, seen[r])
               /\ UNCHANGED call
          ELSE /\ call' = [call EXCEPT ![r] =
                     [at |-> IF r \in entry THEN "settle" ELSE "lookup",
                      req |-> r, proc |-> Home[r], choice |-> seen[r],
                      held |-> r \in entry, answer |-> None]]
               /\ UNCHANGED <<entry, told, deferred>>
    /\ UNCHANGED <<row, stale, approved, ask, seen, result, up, mishaps, hurt>>

-----------------------------------------------------------------------------
(* reply and reject                                                        *)

\* Mutant: the reply applies without having settled the row.
ReplyUnsettled(c, r, p, v) ==
    /\ call[c].at = "idle"
    /\ p \in up
    /\ ask[r] \notin {"new", "dead"} /\ result[r] \notin {"allow", "deny"}
    /\ v \in ChoicesOf(r)
    /\ LET held == p = Home[r] /\ r \in entry
       IN call' = [call EXCEPT ![c] =
             [at |-> IF held THEN "apply" ELSE "lookup", req |-> r, proc |-> p,
              choice |-> v, held |-> held, answer |-> None]]
    /\ UNCHANGED <<row, stale, entry, deferred, approved, askVars, told, up,
                   mishaps, hurt>>

\* A human answers r in process p; only the asking process holds the entry.
Reply(c, r, p, v) ==
    /\ call[c].at = "idle"
    /\ p \in up
    /\ ask[r] \notin {"new", "dead"} /\ result[r] \notin {"allow", "deny"}
    /\ v \in ChoicesOf(r)
    /\ LET held == p = Home[r] /\ r \in entry
       IN call' = [call EXCEPT ![c] =
             [at |-> IF held THEN "settle" ELSE "lookup", req |-> r, proc |-> p,
              choice |-> v, held |-> held, answer |-> None]]
    /\ UNCHANGED <<row, stale, entry, deferred, approved, askVars, told, up,
                   mishaps, hurt>>

Answered(c, answer) == [call[c] EXCEPT !.at = "over", !.answer = answer]
At(c, place) == /\ call[c].at = place
                /\ call[c].proc \in up

\* replyThroughStore: getPending and what its row says.
Lookup(c) ==
    LET r == call[c].req
        found == IF row[r] = "absent" THEN "NotFound"
                 ELSE IF Settled(r) THEN "settled"
                 ELSE IF stale[r] THEN "NotFound"
                 ELSE "live"
    IN /\ At(c, "lookup")
       /\ \E ok \in BOOLEAN :
             /\ Store(ok, IF ok THEN {} ELSE {r})
             /\ call' = [call EXCEPT ![c] =
                   IF ok /\ found = "live" THEN [@ EXCEPT !.at = "settle"]
                      ELSE Answered(c, IF ok THEN found ELSE "NotFound")]
       /\ UNCHANGED <<row, stale, entry, deferred, approved, askVars, told, up>>

\* After settlePending, whatever it returned: the holder goes on to apply.
AfterSettle(c) ==
    IF call[c].held THEN [call[c] EXCEPT !.at = "apply"] ELSE Answered(c, "recorded")

\* settlePending, first statement: is the row pending?
SelectRow(c) ==
    LET r == call[c].req
    IN /\ At(c, "settle")
       /\ \E ok \in BOOLEAN :
             /\ Store(ok, IF ok /\ row[r] # "absent" THEN {} ELSE {r})
             /\ call' = [call EXCEPT ![c] =
                   IF ok /\ row[r] = "pending" THEN [@ EXCEPT !.at = "update"]
                                               ELSE AfterSettle(c)]
       /\ UNCHANGED <<row, stale, entry, deferred, approved, askVars, told, up>>

UpdateRow(c) ==
    LET r == call[c].req
    IN /\ At(c, "update")
       /\ \E ok \in BOOLEAN :
             /\ Store(ok, IF ok THEN {} ELSE {r})
             /\ IF ok THEN Update(r, call[c].choice) ELSE UNCHANGED <<row, stale>>
       /\ call' = [call EXCEPT ![c] = AfterSettle(c)]
       /\ UNCHANGED <<entry, deferred, approved, askVars, told, up>>

Apply(c) ==
    LET r == call[c].req
        v == call[c].choice
    IN /\ At(c, "apply")
       /\ \/ /\ r \in Questions
             /\ ApplyQuestion(r, v)
             /\ UNCHANGED approved
             /\ call' = [call EXCEPT ![c] = Answered(c, "applied")]
          \/ /\ r \in Permissions
             /\ ApplyPermission(r, v)
             /\ call' = [call EXCEPT ![c] =
                   IF v = "once" THEN Answered(c, "applied")
                                 ELSE [@ EXCEPT !.at = "cascade"]]
       /\ UNCHANGED <<row, stale, askVars, up, mishaps, hurt>>

\* The entries a reject, or an "always", settles along with r.
CascadeOf(r, v) ==
    {x \in entry \cap Permissions :
        /\ Home[x] = Home[r]
        /\ SessionOf[x] = SessionOf[r]
        /\ v = "always" => PatternOf[x] \in approved[Home[r]]}

Cascade(c) ==
    LET r == call[c].req
        v == call[c].choice
        more == CascadeOf(r, v)
    IN /\ At(c, "cascade")
       /\ \/ /\ more = {}
             /\ call' = [call EXCEPT ![c] = Answered(c, "applied")]
             /\ UNCHANGED <<entry, deferred, told>>
          \/ \E x \in more :
             /\ entry' = entry \ {x}
             /\ told' = [told EXCEPT ![x] = Append(@, v)]
             /\ deferred' = Complete(deferred, x, v)
             /\ UNCHANGED call
       /\ UNCHANGED <<row, stale, approved, askVars, up, mishaps, hurt>>

-----------------------------------------------------------------------------
(* A process ends                                                          *)

\* The instance is disposed of: its finalizer rejects what is pending.
Dispose(p) ==
    LET mine == {r \in entry : Home[r] = p}
    IN /\ p \in up /\ Mishap
       /\ mine # {}
       /\ deferred' = [r \in Requests |->
                          IF r \in mine THEN Complete(deferred, r, "reject")[r]
                                        ELSE deferred[r]]
       /\ entry' = entry \ mine
       /\ approved' = [approved EXCEPT ![p] = {}]
       /\ UNCHANGED <<row, stale, askVars, call, told, up, hurt>>

\* The process dies: its memory and the fibers in it are gone, its rows stay.
Crash(p) ==
    /\ p \in up /\ Mishap
    /\ up' = up \ {p}
    /\ entry' = {r \in entry : Home[r] # p}
    /\ approved' = [approved EXCEPT ![p] = {}]
    /\ ask' = [r \in Requests |->
                  IF Home[r] = p /\ ask[r] \notin {"over", "cut"} THEN "dead"
                                                                 ELSE ask[r]]
    /\ call' = [c \in Replies |->
                  IF call[c].proc = p /\ call[c].at # "over"
                     THEN Answered(c, "lost") ELSE call[c]]
    /\ UNCHANGED <<row, stale, deferred, rec, seen, result, told, hurt>>

-----------------------------------------------------------------------------
AskStep(r) == \/ Ask(r) \/ PruneRows(r) \/ InsertRow(r) \/ StartWait(r)
              \/ Wake(r) \/ Cleanup(r) \/ ReadRow(r) \/ Reconcile(r)
CallStep(c) == Lookup(c) \/ SelectRow(c) \/ UpdateRow(c) \/ Apply(c) \/ Cascade(c)

\* Every ask has ended or waits for a human who may never answer.
Rest ==
    /\ \A r \in Requests :
          \/ ask[r] \in {"over", "cut", "dead"}
          \/ ask[r] = "wait" /\ deferred[r] = "open"
    /\ \A c \in Replies : call[c].at \in {"idle", "over"}
    /\ UNCHANGED vars

Next ==
    \/ \E r \in Requests : \/ AskStep(r) \/ Beat(r) \/ Lapse(r)
                           \/ Interrupt(r) \/ Abandon(r)
    \/ \E c \in Calls, r \in Requests, p \in Procs, v \in Choices : Reply(c, r, p, v)
    \/ \E c \in Replies : CallStep(c)
    \/ \E p \in Procs : Dispose(p) \/ Crash(p)
    \/ Rest

(* Fibers that can run do run; a heartbeat is due every five seconds.      *)
(* Nobody has to answer, to abort, or to die.                              *)
Fairness ==
    /\ \A r \in Requests : WF_vars(AskStep(r)) /\ WF_vars(Beat(r))
    /\ \A c \in Replies : WF_vars(CallStep(c))

Spec == Init /\ [][Next]_vars /\ Fairness
-----------------------------------------------------------------------------
(* Properties                                                              *)

(* Question.applyReply and applyReject: however many replies, rejects and  *)
(* recorded resolutions race for one question, at most one of them is      *)
(* published, and it is the outcome its asker gets.                        *)
AnsweredOnce ==
    \A q \in Questions :
        /\ Len(told[q]) <= 1
        /\ told[q] # <<>> => deferred[q] = told[q][1]

\* Somebody answered r with v.
Given(r, v) == \E c \in Calls : call[c].req = r /\ call[c].choice = v

\* A request that process p asked for pattern x was answered with "always".
Approvable(p, x) ==
    \E m \in Permissions : Home[m] = p /\ PatternOf[m] = x /\ Given(m, "always")

(* Permission.reply and its cascade: a permission is granted once only if  *)
(* somebody granted that very request, and for good only if somebody said  *)
(* "always" in its session and an "always" was given for its pattern; a    *)
(* reject that races either grants nothing, and a pattern is approved for  *)
(* good in a process only by an "always" for it to one of its requests.    *)
GrantHasCause ==
    /\ \A m \in Permissions :
          /\ deferred[m] = "once" => Given(m, "once")
          /\ deferred[m] = "always" =>
                /\ Approvable(Home[m], PatternOf[m])
                /\ \E n \in Permissions : /\ Home[n] = Home[m]
                                         /\ SessionOf[n] = SessionOf[m]
                                         /\ Given(n, "always")
    /\ \A p \in Procs : \A x \in approved[p] : Approvable(p, x)

(* Question.reply: "this ordering guarantees the row is settled by the     *)
(* time that cleanup can run", so the cleanup of an answered question      *)
(* never discards its row, as long as the store worked and had the row.    *)
SettledBeforeCleanup ==
    \A q \in Questions \ hurt :
        ask[q] = "cleanup" /\ told[q] # <<>> => row[q] # "pending"

\* list: the asking process looks in its memory, the others at live rows.
Listed(p, r) == IF p = Home[r] THEN r \in entry
                               ELSE row[r] = "pending" /\ ~stale[r]

(* list: a request that waits for a human is shown by every process until  *)
(* its row lapses or is settled, and by none once its wait is over, by an  *)
(* answer, a disposal or an abort, unless the store failed.  What an abort *)
(* before the wait leaves is in EndedIsUnlisted.                           *)
ListedWhileOpen ==
    \A r \in Requests \ hurt, p \in up :
        /\ ask[r] = "wait" /\ r \in entry =>
              Listed(p, r) \/ stale[r] \/ Settled(r)
        /\ ask[r] = "over" => ~Listed(p, r)

(* replyThroughStore: a resolution that other processes recorded, with no  *)
(* reply in the asking process, is what the question's asker gets, unless  *)
(* it was aborted or its instance disposed of.                             *)
RecordedIsReturned ==
    \A q \in Questions :
        /\ Settled(q)
        /\ \A c \in Calls : call[c].req = q => ~call[c].held
        => result[q] \in {"none", row[q], "interrupt", "reject"}

(* Once a reply was applied or recorded, the ask returns: the local reply  *)
(* wakes it or the reconcile loop finds the row, unless the row was pruned *)
(* or the store failed under it.                                           *)
AnswerArrives ==
    []<>(\A r \in Requests :
           (\E c \in Calls : call[c].req = r /\ call[c].answer \in {"applied", "recorded"})
           => ask[r] \in {"over", "cut", "dead"} \/ r \in hurt)

\* A row that is not there was never inserted, or is gone for good.
CellOf(r) == IF row[r] # "absent" THEN row[r]
             ELSE IF ask[r] \in {"new", "prune", "insert"} THEN "unset" ELSE "gone"

Abstract == INSTANCE Settlement WITH
    Resolutions <- Choices,
    Outcomes <- Choices \cup {"allow", "deny", "interrupt"},
    cell <- [r \in Requests |-> CellOf(r)],
    outcome <- result

(* The selects, conditional updates, deletes and heartbeats of the store,  *)
(* interleaved and failing, implement write-once cells: the first settler  *)
(* wins, a recorded resolution is never overwritten, a row that is gone    *)
(* does not come back, and an ask returns once.                            *)
WriteOnce == Abstract!Spec

-----------------------------------------------------------------------------
(* What the code says and does not do; the runs do not name it.            *)

(* question/index.ts: "the ensuring below still removes the entry on every *)
(* exit path".  An ask that is aborted while it records or publishes its   *)
(* request has left without it.                                            *)
EndedIsUnlisted ==
    \A r \in Requests \ hurt, p \in up : ask[r] = "cut" => ~Listed(p, r)
=============================================================================
