----------------------- MODULE PendingRequestsProofs -----------------------
(***************************************************************************)
(* For any requests, calls, processes, sessions and patterns: the safety   *)
(* properties of PendingRequests, and that it implements Settlement.       *)
(***************************************************************************)
EXTENDS PendingRequests, SequenceTheorems, TLAPS

-----------------------------------------------------------------------------
(* The inductive invariant                                                 *)

Early  == {"new", "prune", "insert"}
Before == Early \cup {"publish"}

(* A call carries what somebody gave, and a holder applies only after the  *)
(* row is settled, unless the store failed it.                             *)
CallOf(c) ==
    /\ call[c].at = "idle" =>
          call[c].req = None /\ call[c].choice = None /\ call[c].proc = None
    /\ call[c].at # "idle" =>
          /\ call[c].req \in Requests
          /\ call[c].choice \in ChoicesOf(call[c].req)
          /\ Given(call[c].req, call[c].choice)
          /\ c \in Permissions => call[c].req = c
    /\ call[c].at \in {"apply", "cascade"} => call[c].held
    /\ call[c].at = "update" => ask[call[c].req] \notin Early
    /\ call[c].at = "apply" /\ call[c].req \notin hurt =>
          row[call[c].req] # "pending" /\ ask[call[c].req] \notin Early
    /\ call[c].at = "cascade" =>
          call[c].req \in Permissions /\ call[c].choice # "once"

CallsInv == \A c \in Replies : CallOf(c)

(* A row is inserted once, settled with what was given, and then kept; the *)
(* reconcile loop holds what it read there.                                *)
RowOf(r) ==
    /\ ask[r] \in Early => row[r] = "absent"
    /\ ask[r] \in Before => seen[r] = None /\ rec[r] = "off"
    /\ Settled(r) => row[r] \in ChoicesOf(r) /\ Given(r, row[r])
    /\ seen[r] # None => /\ seen[r] \in ChoicesOf(r)
                         /\ Given(r, seen[r])
                         /\ row[r] \in {"absent", seen[r]}
    /\ rec[r] = "poll" => seen[r] = None
    /\ rec[r] = "apply" => seen[r] # None

RowsInv == \A r \in Requests : RowOf(r)

\* An ask returns once, and holds its entry and its row until then.
AskOf(r) ==
    /\ ask[r] \in Before \cup {"wait"} => result[r] = "none"
    /\ ask[r] \in {"new", "cleanup", "over", "dead"} => r \notin entry
    /\ r \notin hurt =>
          /\ ask[r] \in {"publish", "wait"} => row[r] # "absent"
          /\ ask[r] = "over" => row[r] # "pending"

AskInv == \A r \in Requests : AskOf(r)

\* A question is open exactly until one outcome is published or imposed.
QuestionOf(q) ==
    /\ ask[q] = "new" \/ q \in entry => told[q] = <<>> /\ deferred[q] = "open"
    /\ told[q] # <<>> => told[q] = <<deferred[q]>>
    /\ told[q] # <<>> /\ q \notin hurt => row[q] # "pending" /\ ask[q] \notin Early
    /\ result[q] \notin {"none", "interrupt"} =>
          result[q] = deferred[q] /\ deferred[q] # "open"
    /\ (\A c \in Calls : call[c].req = q => ~call[c].held) =>
          deferred[q] \in {"open", "reject", seen[q]}

QuestionsInv == \A q \in Questions : QuestionOf(q)

IInv == TypeOK /\ CallsInv /\ RowsInv /\ AskInv /\ QuestionsInv /\ GrantHasCause

\* The steps of one request, of one call and of one process.
AnAskStep(r) == \/ AskStep(r) \/ Beat(r) \/ Lapse(r)
                \/ Interrupt(r) \/ Abandon(r)

-----------------------------------------------------------------------------
LEMMA InitIInv == Init => IInv
<1> SUFFICES ASSUME Init PROVE IInv
  OBVIOUS
<1> USE RequestsAssumption DEF Init, Requests, Choices, Replies
<1>1. TypeOK
  BY DEF TypeOK, CallRecords, Idle
<1>2. CallsInv
  BY DEF CallsInv, CallOf, Idle
<1>3. RowsInv
  BY DEF RowsInv, RowOf, Settled, Early, Before
<1>4. AskInv
  BY DEF AskInv, AskOf, Early, Before
<1>5. QuestionsInv
  BY DEF QuestionsInv, QuestionOf, Early
<1>6. GrantHasCause
  BY DEF GrantHasCause
<1> QED BY <1>1, <1>2, <1>3, <1>4, <1>5, <1>6 DEF IInv

LEMMA ExceptType ==
  ASSUME NEW D, NEW R, NEW f \in [D -> R], NEW x \in D, NEW y \in R
  PROVE  [f EXCEPT ![x] = y] \in [D -> R]
OBVIOUS

LEMMA AnsweredType ==
  ASSUME NEW c \in Replies, call \in [Replies -> CallRecords],
         NEW answer \in {"applied", "recorded", "settled", "NotFound", "lost"}
  PROVE  Answered(c, answer) \in CallRecords
BY DEF Answered, CallRecords

LEMMA MoveType ==
  ASSUME NEW c \in Replies, call \in [Replies -> CallRecords],
         NEW place \in {"settle", "update", "apply", "cascade"}
  PROVE  [call[c] EXCEPT !.at = place] \in CallRecords
BY DEF CallRecords

LEMMA ToldType ==
  ASSUME NEW r \in Requests, NEW v \in Choices,
         told \in [Requests -> Seq(Choices)]
  PROVE  [told EXCEPT ![r] = Append(told[r], v)] \in [Requests -> Seq(Choices)]
<1>1. told[r] \in Seq(Choices)
  OBVIOUS
<1>2. Append(told[r], v) \in Seq(Choices)
  BY <1>1, AppendProperties
<1> QED BY <1>2, ExceptType

LEMMA StoreType ==
  ASSUME NEW ok \in BOOLEAN, NEW missed \in SUBSET Requests, Store(ok, missed),
         mishaps \in 0 .. MaxMishaps, hurt \subseteq Requests
  PROVE  mishaps' \in 0 .. MaxMishaps /\ hurt' \subseteq Requests
BY RequestsAssumption DEF Store, Mishap

LEMMA TypeStep == TypeOK /\ CallsInv /\ RowsInv /\ [Next]_vars => TypeOK'
<1> SUFFICES ASSUME TypeOK, CallsInv, RowsInv, [Next]_vars PROVE TypeOK'
  OBVIOUS
<1> USE RequestsAssumption
<1>c. call \in [Replies -> CallRecords]
  BY DEF TypeOK, CallRecords
<1>d. deferred \in [Requests -> {"open"} \cup Choices]
  BY DEF TypeOK
<1>t. told \in [Requests -> Seq(Choices)]
  BY DEF TypeOK
<1>r. row \in [Requests -> {"absent", "pending"} \cup Choices]
  BY DEF TypeOK
<1>m. mishaps \in 0 .. MaxMishaps /\ hurt \subseteq Requests
  BY DEF TypeOK
<1>s. stale \in [Requests -> BOOLEAN]
  BY DEF TypeOK
<1>p. approved \in [Procs -> SUBSET {PatternOf[m] : m \in Permissions}]
  BY DEF TypeOK
<1>1. ASSUME NEW r \in Requests, AnAskStep(r) PROVE TypeOK'
  <2>1. CASE Ask(r) BY <2>1 DEF Ask, Evaluate, TypeOK, askVars
  <2>2. CASE PruneRows(r)
    BY <2>2 DEF PruneRows, Store, Mishap, Expired, TypeOK, askVars
  <2>3. CASE InsertRow(r)
    <3>1. row' \in [Requests -> {"absent", "pending"} \cup Choices]
      BY <2>3, <1>r DEF InsertRow, Insert
    <3>2. stale' \in [Requests -> BOOLEAN]
      BY <2>3 DEF InsertRow, Insert, TypeOK
    <3>3. mishaps' \in 0 .. MaxMishaps /\ hurt' \subseteq Requests
      <4>1. PICK ok \in BOOLEAN : Store(ok, IF ok THEN {} ELSE {r})
        BY <2>3 DEF InsertRow
      <4>2. (IF ok THEN {} ELSE {r}) \in SUBSET Requests
        OBVIOUS
      <4> QED BY <4>1, <4>2, <1>m, StoreType
    <3> QED BY <2>3, <3>1, <3>2, <3>3 DEF InsertRow, TypeOK, askVars
  <2>4. CASE StartWait(r) BY <2>4 DEF StartWait, TypeOK, askVars
  <2>5. CASE Wake(r)
    <3>1. deferred[r] \in Choices
      BY <2>5, <1>d DEF Wake
    <3> QED BY <2>5, <3>1 DEF Wake, Leave, TypeOK, askVars
  <2>6. CASE Cleanup(r)
    <3>1. row' \in [Requests -> {"absent", "pending"} \cup Choices]
      BY <2>6, <1>r DEF Cleanup, Discard
    <3>2. mishaps' \in 0 .. MaxMishaps /\ hurt' \subseteq Requests
      <4>1. PICK ok \in BOOLEAN : Store(ok, IF ok THEN {} ELSE {r})
        BY <2>6 DEF Cleanup
      <4>2. (IF ok THEN {} ELSE {r}) \in SUBSET Requests
        OBVIOUS
      <4> QED BY <4>1, <4>2, <1>m, StoreType
    <3> QED BY <2>6, <3>1, <3>2 DEF Cleanup, TypeOK, askVars
  <2>7. CASE ReadRow(r) BY <2>7 DEF ReadRow, Settled, TypeOK, askVars
  <2>8. CASE Reconcile(r)
    <3>1. seen[r] \in Choices
      BY <2>8 DEF Reconcile, TypeOK, RowsInv, RowOf
    <3>2. told' \in [Requests -> Seq(Choices)]
      <4>1. \/ told' = told
            \/ told' = [told EXCEPT ![r] = Append(told[r], seen[r])]
        BY <2>8 DEF Reconcile, ApplyQuestion
      <4>2. [told EXCEPT ![r] = Append(told[r], seen[r])]
               \in [Requests -> Seq(Choices)]
        BY <3>1, <1>t, ToldType
      <4> QED BY <4>1, <4>2, <1>t
    <3>3. deferred' \in [Requests -> {"open"} \cup Choices]
      BY <2>8, <3>1, <1>d DEF Reconcile, ApplyQuestion, Complete
    <3>4. call' \in [Replies -> CallRecords]
      <4>1. CASE r \in Questions
        BY <2>8, <4>1, <1>c DEF Reconcile
      <4>2. CASE r \notin Questions
        <5>1. r \in Replies /\ Home[r] \in Procs
          BY <4>2 DEF Requests, Replies
        <5>2. PICK next :
                 /\ call' = [call EXCEPT ![r] = next]
                 /\ next = [at |-> IF r \in entry THEN "settle" ELSE "lookup",
                            req |-> r, proc |-> Home[r], choice |-> seen[r],
                            held |-> r \in entry, answer |-> None]
          BY <2>8, <4>2 DEF Reconcile
        <5>3. next \in CallRecords
          BY <5>1, <5>2, <3>1 DEF CallRecords
        <5> QED BY <5>1, <5>2, <5>3, <1>c, ExceptType
      <4> QED BY <4>1, <4>2
    <3> QED BY <2>8, <3>2, <3>3, <3>4
            DEF Reconcile, ApplyQuestion, TypeOK, askVars
  <2>9. CASE Beat(r) BY <2>9 DEF Beat, Heartbeat, TypeOK, askVars
  <2>10. CASE Lapse(r) BY <2>10 DEF Lapse, Mishap, TypeOK, askVars
  <2>11. CASE Interrupt(r) BY <2>11 DEF Interrupt, Leave, Mishap, TypeOK, askVars
  <2>12. CASE Abandon(r) BY <2>12 DEF Abandon, Mishap, TypeOK, askVars
  <2> QED BY <1>1, <2>1, <2>2, <2>3, <2>4, <2>5, <2>6, <2>7, <2>8, <2>9, <2>10,
             <2>11, <2>12 DEF AnAskStep, AskStep
<1>2. ASSUME NEW c \in Calls, NEW r \in Requests, NEW p \in Procs,
             NEW v \in Choices, Reply(c, r, p, v)
      PROVE  TypeOK'
  <2>1. call' \in [Replies -> CallRecords]
    BY <1>2, <1>c DEF Reply, CallRecords, Replies
  <2> QED BY <1>2, <2>1 DEF Reply, TypeOK, askVars
<1>3. ASSUME NEW c \in Replies, CallStep(c) PROVE TypeOK'
  <2>0. /\ call[c].at # "idle" => call[c].req \in Requests /\ call[c].choice \in Choices
        /\ call[c].held \in BOOLEAN
    BY <1>c DEF CallsInv, CallOf, CallRecords, ChoicesOf, Choices
  <2> HIDE DEF Choices
  <2>1. CASE Lookup(c)
    <3>1. call' \in [Replies -> CallRecords]
      BY <2>1, <1>c, AnsweredType, MoveType DEF Lookup
    <3> QED BY <2>1, <2>0, <3>1 DEF Lookup, At, Store, Mishap, TypeOK, askVars
  <2>2. CASE SelectRow(c)
    <3>1. call' \in [Replies -> CallRecords]
      BY <2>2, <1>c, AnsweredType, MoveType DEF SelectRow, AfterSettle
    <3> QED BY <2>2, <2>0, <3>1 DEF SelectRow, At, Store, Mishap, TypeOK, askVars
  <2>3. CASE UpdateRow(c)
    <3>1. call' \in [Replies -> CallRecords]
      BY <2>3, <1>c, AnsweredType, MoveType DEF UpdateRow, AfterSettle
    <3>2. row' \in [Requests -> {"absent", "pending"} \cup Choices]
      BY <2>3, <2>0, <1>r DEF UpdateRow, At, Update
    <3>3. stale' \in [Requests -> BOOLEAN]
      BY <2>3, <2>0, <1>s DEF UpdateRow, At, Update
    <3>4. mishaps' \in 0 .. MaxMishaps /\ hurt' \subseteq Requests
      <4>1. PICK ok \in BOOLEAN : Store(ok, IF ok THEN {} ELSE {call[c].req})
        BY <2>3 DEF UpdateRow
      <4>2. (IF ok THEN {} ELSE {call[c].req}) \in SUBSET Requests
        BY <2>3, <2>0 DEF UpdateRow, At
      <4> QED BY <4>1, <4>2, <1>m, StoreType
    <3> QED BY <2>3, <3>1, <3>2, <3>3, <3>4 DEF UpdateRow, TypeOK, askVars
  <2>4. CASE Apply(c)
    <3>1. call' \in [Replies -> CallRecords]
      BY <2>4, <1>c, AnsweredType, MoveType DEF Apply
    <3>2. told' \in [Requests -> Seq(Choices)]
      <4>1. \/ told' = told
            \/ told' = [told EXCEPT ![call[c].req] =
                           Append(told[call[c].req], call[c].choice)]
        BY <2>4 DEF Apply, ApplyQuestion, ApplyPermission
      <4>2. [told EXCEPT ![call[c].req] = Append(told[call[c].req], call[c].choice)]
               \in [Requests -> Seq(Choices)]
        BY <2>4, <2>0, <1>t, ToldType DEF Apply, At
      <4> QED BY <4>1, <4>2, <1>t
    <3>3. deferred' \in [Requests -> {"open"} \cup Choices]
      BY <2>4, <2>0, <1>d DEF Apply, At, ApplyQuestion, ApplyPermission, Complete
    <3>4. approved' \in [Procs -> SUBSET {PatternOf[m] : m \in Permissions}]
      BY <2>4, <2>0, <1>p DEF Apply, ApplyPermission
    <3> QED BY <2>4, <2>0, <3>1, <3>2, <3>3, <3>4
            DEF Apply, At, ApplyQuestion, ApplyPermission, TypeOK, askVars
  <2>5. CASE Cascade(c)
    <3>1. call' \in [Replies -> CallRecords]
      BY <2>5, <1>c, AnsweredType DEF Cascade
    <3>2. told' \in [Requests -> Seq(Choices)]
      BY <2>5, <2>0, <1>t, ToldType DEF Cascade, At, CascadeOf, Requests
    <3>3. deferred' \in [Requests -> {"open"} \cup Choices]
      BY <2>5, <2>0, <1>d DEF Cascade, At, CascadeOf, Complete, Requests
    <3> QED BY <2>5, <2>0, <3>1, <3>2, <3>3
            DEF Cascade, At, TypeOK, askVars
  <2> QED BY <1>3, <2>1, <2>2, <2>3, <2>4, <2>5 DEF CallStep
<1>4. ASSUME NEW p \in Procs, Dispose(p) \/ Crash(p) PROVE TypeOK'
  <2>1. CASE Dispose(p)
    <3>1. deferred' \in [Requests -> {"open"} \cup Choices]
      BY <2>1 DEF Dispose, Complete, TypeOK, Choices
    <3> QED BY <2>1, <3>1 DEF Dispose, Mishap, TypeOK, askVars
  <2>2. CASE Crash(p)
    <3>1. call' \in [Replies -> CallRecords]
      BY <2>2, <1>c, AnsweredType DEF Crash
    <3> QED BY <2>2, <3>1 DEF Crash, Mishap, TypeOK, askVars
  <2> QED BY <1>4, <2>1, <2>2
<1>5. CASE UNCHANGED vars
  BY <1>5 DEF vars, TypeOK, askVars
<1> QED BY <1>1, <1>2, <1>3, <1>4, <1>5 DEF Next, AnAskStep, Rest

-----------------------------------------------------------------------------
(* What a step does to a row, and what only grows                          *)

\* A call that was placed keeps what it carries.
LEMMA CallKeeps ==
  ASSUME TypeOK, [Next]_vars, NEW c \in Calls, call[c].at # "idle"
  PROVE  /\ call'[c].at # "idle"
         /\ call'[c].req = call[c].req
         /\ call'[c].choice = call[c].choice
         /\ call'[c].held = call[c].held
<1>c. call \in [Replies -> CallRecords] /\ c \in Replies /\ c \notin Requests
  BY RequestsAssumption DEF TypeOK, Replies
<1>0. CASE UNCHANGED call
  BY <1>0
<1>1. ASSUME NEW r \in Requests, Reconcile(r) PROVE call'[c] = call[c]
  BY <1>1, <1>c DEF Reconcile
<1>2. ASSUME NEW d \in Calls, NEW r \in Requests, NEW p \in Procs, NEW v \in Choices,
             Reply(d, r, p, v)
      PROVE  call'[c] = call[c]
  BY <1>2, <1>c DEF Reply
<1>3. ASSUME NEW d \in Replies, CallStep(d)
      PROVE  \/ call'[c] = call[c]
             \/ \E place \in {"settle", "update", "apply", "cascade"} :
                   call'[c] = [call[c] EXCEPT !.at = place]
             \/ \E answer \in {"applied", "recorded", "settled", "NotFound", "lost"} :
                   call'[c] = Answered(c, answer)
  <2>1. CASE Lookup(d)
    BY <2>1, <1>c DEF Lookup
  <2>2. CASE SelectRow(d)
    BY <2>2, <1>c DEF SelectRow, AfterSettle
  <2>3. CASE UpdateRow(d)
    BY <2>3, <1>c DEF UpdateRow, AfterSettle
  <2>4. CASE Apply(d)
    BY <2>4, <1>c DEF Apply
  <2>5. CASE Cascade(d)
    BY <2>5, <1>c DEF Cascade
  <2> QED BY <1>3, <2>1, <2>2, <2>3, <2>4, <2>5 DEF CallStep
<1>4. ASSUME NEW p \in Procs, Crash(p)
      PROVE  call'[c] = call[c] \/ call'[c] = Answered(c, "lost")
  BY <1>4, <1>c DEF Crash
<1>5. \/ call'[c] = call[c]
      \/ \E place \in {"settle", "update", "apply", "cascade"} :
            call'[c] = [call[c] EXCEPT !.at = place]
      \/ \E answer \in {"applied", "recorded", "settled", "NotFound", "lost"} :
            call'[c] = Answered(c, answer)
  <2>1. ASSUME NEW r \in Requests,
             \/ AskStep(r) \/ Beat(r) \/ Lapse(r)
             \/ Interrupt(r) \/ Abandon(r)
        PROVE  UNCHANGED call \/ Reconcile(r)
    BY <2>1 DEF AskStep, Ask, PruneRows, InsertRow, StartWait, Wake, Leave, Cleanup,
                ReadRow, Beat, Lapse, Interrupt, Abandon
  <2>2. ASSUME NEW p \in Procs, Dispose(p)
        PROVE  UNCHANGED call
    BY <2>2 DEF Dispose
  <2>3. CASE UNCHANGED vars
    BY <2>3 DEF vars
  <2> QED BY <1>0, <1>1, <1>2, <1>3, <1>4, <2>1, <2>2, <2>3 DEF Next, Rest
<1> QED BY <1>5, <1>c DEF Answered, CallRecords

LEMMA GivenGrows ==
  ASSUME TypeOK, CallsInv, [Next]_vars, NEW r \in Requests, NEW v, Given(r, v)
  PROVE  Given(r, v)'
<1>1. PICK c \in Calls : call[c].req = r /\ call[c].choice = v
  BY DEF Given
<1>2. call[c].at # "idle"
  BY <1>1, RequestsAssumption DEF CallsInv, CallOf, Replies
<1> QED BY <1>1, <1>2, CallKeeps DEF Given

\* Somebody has answered r with v once the step is taken.
GivenNext(r, v) == \E c \in Calls : call'[c].req = r /\ call'[c].choice = v

\* An ask leaves its early steps for good, and what is hurt stays hurt.
LEMMA OnlyGrows ==
  ASSUME TypeOK, [Next]_vars
  PROVE  /\ hurt \subseteq hurt'
         /\ \A r \in Requests : ask[r] \notin Early => ask'[r] \notin Early
<1>t. ask \in [Requests -> {"new", "prune", "insert", "publish", "wait", "cleanup",
                            "over", "cut", "dead"}]
  BY DEF TypeOK
<1>1. ASSUME NEW r \in Requests,
             \/ AskStep(r) \/ Beat(r) \/ Lapse(r)
             \/ Interrupt(r) \/ Abandon(r)
      PROVE  /\ hurt \subseteq hurt'
             /\ \A x \in Requests : ask[x] \notin Early => ask'[x] \notin Early
  BY <1>1, <1>t DEF AskStep, Ask, PruneRows, InsertRow, StartWait, Wake, Leave,
       Cleanup, ReadRow, Reconcile, Beat, Lapse, Interrupt, Abandon, Store, askVars, Early
<1>2. ASSUME NEW c \in Calls, NEW r \in Requests, NEW p \in Procs, NEW v \in Choices,
             Reply(c, r, p, v)
      PROVE  UNCHANGED <<hurt, ask>>
  BY <1>2 DEF Reply, askVars
<1>3. ASSUME NEW c \in Replies, CallStep(c)
      PROVE  hurt \subseteq hurt' /\ UNCHANGED ask
  BY <1>3 DEF CallStep, Lookup, SelectRow, UpdateRow, Apply, Cascade, Store, askVars
<1>4. ASSUME NEW p \in Procs, Dispose(p) \/ Crash(p)
      PROVE  /\ UNCHANGED hurt
             /\ \A x \in Requests : ask[x] \notin Early => ask'[x] \notin Early
  BY <1>4, <1>t DEF Dispose, Crash, askVars, Early
<1>5. CASE UNCHANGED vars
  BY <1>5 DEF vars, askVars
<1> QED BY <1>1, <1>2, <1>3, <1>4, <1>5 DEF Next, Rest

\* The four statements that write a row.
RowMove(r) ==
    \/ row'[r] = row[r]
    \/ /\ ask[r] = "insert" /\ ask'[r] = "publish"
       /\ row[r] = "absent" /\ row'[r] = "pending"
    \/ /\ row[r] = "pending"
       /\ \E c \in Replies : /\ call[c].at = "update"
                             /\ call[c].req = r
                             /\ row'[r] = call[c].choice
    \/ row[r] # "absent" /\ row'[r] = "absent" /\ r \in hurt'
    \/ ask[r] = "cleanup" /\ row[r] = "pending" /\ row'[r] = "absent"

LEMMA RowMoves ==
  ASSUME TypeOK, [Next]_vars, NEW r \in Requests
  PROVE  RowMove(r)
<1>t. /\ row \in [Requests -> {"absent", "pending"} \cup Choices]
      /\ ask \in [Requests -> {"new", "prune", "insert", "publish", "wait", "cleanup",
                               "over", "cut", "dead"}]
  BY DEF TypeOK
<1>0. CASE UNCHANGED row
  BY <1>0 DEF RowMove
<1>1. ASSUME NEW x \in Requests, PruneRows(x) PROVE RowMove(r)
  BY <1>1, <1>t DEF PruneRows, Store, Expired, RowMove
<1>2. ASSUME NEW x \in Requests, InsertRow(x) PROVE RowMove(r)
  BY <1>2, <1>t DEF InsertRow, Insert, RowMove
<1>3. ASSUME NEW x \in Requests, Cleanup(x) PROVE RowMove(r)
  BY <1>3, <1>t DEF Cleanup, Discard, RowMove
<1>4. ASSUME NEW c \in Replies, UpdateRow(c) PROVE RowMove(r)
  BY <1>4, <1>t DEF UpdateRow, At, Update, RowMove
<1>5. ASSUME NEW x \in Requests, AnAskStep(x)
      PROVE  UNCHANGED row \/ PruneRows(x) \/ InsertRow(x) \/ Cleanup(x)
  BY <1>5 DEF AnAskStep, AskStep, Ask, StartWait, Wake, Leave, ReadRow, Reconcile,
       Beat, Lapse, Interrupt, Abandon
<1>6. ASSUME NEW c \in Calls, NEW x \in Requests, NEW p \in Procs, NEW v \in Choices,
             Reply(c, x, p, v)
      PROVE  UNCHANGED row
  BY <1>6 DEF Reply
<1>7. ASSUME NEW c \in Replies, CallStep(c)
      PROVE  UNCHANGED row \/ UpdateRow(c)
  BY <1>7 DEF CallStep, Lookup, SelectRow, Apply, Cascade
<1>8. ASSUME NEW p \in Procs, Dispose(p) \/ Crash(p) PROVE UNCHANGED row
  BY <1>8 DEF Dispose, Crash
<1>9. CASE UNCHANGED vars
  BY <1>9 DEF vars, RowMove
<1> QED BY <1>0, <1>1, <1>2, <1>3, <1>4, <1>5, <1>6, <1>7, <1>8, <1>9
        DEF Next, Rest, AnAskStep

-----------------------------------------------------------------------------
(* One lemma per part of the inductive invariant                           *)

LEMMA CallsStep == IInv /\ [Next]_vars => CallsInv'
<1> SUFFICES ASSUME IInv, [Next]_vars, NEW c \in Replies PROVE CallOf(c)'
  BY DEF CallsInv
<1> USE RequestsAssumption
<1>0. TypeOK /\ CallsInv /\ RowsInv /\ CallOf(c)
  BY DEF IInv, CallsInv
<1>c. call \in [Replies -> CallRecords] /\ hurt \subseteq Requests
  BY <1>0 DEF TypeOK
<1>g. /\ hurt \subseteq hurt'
      /\ \A r \in Requests : ask[r] \notin Early => ask'[r] \notin Early
  BY <1>0, OnlyGrows
<1>v. \A r \in Requests : \A v : Given(r, v) => GivenNext(r, v)
  BY <1>0, GivenGrows DEF Given, GivenNext
<1>r. ASSUME NEW r \in Requests, row[r] # "pending", ask[r] \notin Early
      PROVE  row'[r] # "pending"
  BY <1>r, <1>0, RowMoves DEF RowMove, Early
<1>1. CASE call'[c] = call[c]
  BY <1>1, <1>0, <1>g, <1>v, <1>r DEF CallOf, Given, GivenNext
<1>2. ASSUME NEW r \in Requests, NEW p \in Procs, NEW v \in Choices, Reply(c, r, p, v),
             c \in Calls
      PROVE  CallOf(c)'
  <2>1. call'[c].req = r /\ call'[c].choice = v /\ call'[c].at \in {"settle", "lookup"}
    BY <1>2, <1>c DEF Reply
  <2>2. GivenNext(r, v)
    BY <1>2, <2>1 DEF GivenNext
  <2>3. v \in ChoicesOf(r) /\ c \notin Permissions
    BY <1>2 DEF Reply, Requests
  <2> QED BY <2>1, <2>2, <2>3 DEF CallOf, ChoicesOf, Given, GivenNext
<1>3. ASSUME c \in Permissions, Reconcile(c) PROVE CallOf(c)'
  <2>1. /\ call'[c].req = c /\ call'[c].choice = seen[c]
        /\ call'[c].at \in {"settle", "lookup"}
    BY <1>3, <1>c DEF Reconcile, Requests
  <2>2. seen[c] \in ChoicesOf(c) /\ Given(c, seen[c]) /\ c \in Requests
    BY <1>3, <1>0 DEF Reconcile, RowsInv, RowOf, Requests
  <2>3. GivenNext(c, seen[c])
    BY <2>2, <1>v
  <2> QED BY <2>1, <2>2, <2>3 DEF CallOf, ChoicesOf, Given, GivenNext
<1>4. ASSUME call[c].at # "idle",
             \/ \E answer \in {"applied", "recorded", "settled", "NotFound", "lost"} :
                   call'[c] = Answered(c, answer)
             \/ call'[c] = [call[c] EXCEPT !.at = "settle"]
      PROVE  CallOf(c)'
  <2>1. /\ call'[c].req = call[c].req /\ call'[c].choice = call[c].choice
        /\ call'[c].at \in {"over", "settle"}
    BY <1>4, <1>c DEF Answered, CallRecords
  <2>2. GivenNext(call[c].req, call[c].choice)
    BY <1>4, <1>0, <1>v DEF CallOf
  <2> QED BY <1>4, <1>0, <2>1, <2>2 DEF CallOf, ChoicesOf, Given, GivenNext
<1>5. ASSUME CallStep(c) PROVE CallOf(c)'
  <2> DEFINE r == call[c].req
  <2>0. /\ r \in Requests /\ call[c].choice \in ChoicesOf(r)
        /\ GivenNext(r, call[c].choice)
        /\ call[c].at # "idle"
        /\ c \in Permissions => r = c
    BY <1>5, <1>0, <1>v
       DEF CallStep, CallOf, Lookup, SelectRow, UpdateRow, Apply, Cascade, At
  <2>1. CASE Lookup(c)
    BY <2>0, <2>1, <1>4, <1>c DEF Lookup
  <2>2. CASE SelectRow(c)
    <3>1. CASE row[r] = "pending" /\ call'[c] = [call[c] EXCEPT !.at = "update"]
      <4>1. row[r] = "pending" /\ UNCHANGED <<row, ask>>
        BY <2>2, <3>1 DEF SelectRow, askVars
      <4>2. ask'[r] \notin Early
        BY <4>1, <2>0, <1>0 DEF RowsInv, RowOf
      <4> QED BY <3>1, <4>2, <2>0, <1>c
              DEF CallOf, ChoicesOf, CallRecords, Given, GivenNext
    <3>2. CASE call[c].held /\ call'[c] = [call[c] EXCEPT !.at = "apply"]
      <4>1. UNCHANGED <<row, ask>>
        BY <2>2 DEF SelectRow, askVars
      <4>2. r \notin hurt' => row[r] \notin {"absent", "pending"}
        BY <2>2, <3>2, <1>c DEF SelectRow, AfterSettle, Store, CallRecords
      <4>3. r \notin hurt' => ask[r] \notin Early
        BY <4>2, <2>0, <1>0 DEF RowsInv, RowOf
      <4> QED BY <3>2, <4>1, <4>2, <4>3, <2>0, <1>c
              DEF CallOf, ChoicesOf, CallRecords, Given, GivenNext
    <3> QED BY <2>2, <3>1, <3>2, <2>0, <1>4, <1>c DEF SelectRow, AfterSettle
  <2>3. CASE UpdateRow(c)
    <3>1. CASE call[c].held /\ call'[c] = [call[c] EXCEPT !.at = "apply"]
      <4>1. UNCHANGED ask /\ ask[r] \notin Early
        BY <2>3, <1>0 DEF UpdateRow, At, askVars, CallOf
      <4>2. r \notin hurt' => row'[r] # "pending"
        BY <2>3, <2>0, <1>0 DEF UpdateRow, Update, Store, TypeOK, ChoicesOf
      <4> QED BY <3>1, <4>1, <4>2, <2>0, <1>c
              DEF CallOf, ChoicesOf, CallRecords, Given, GivenNext
    <3> QED BY <2>3, <3>1, <2>0, <1>4, <1>c DEF UpdateRow, AfterSettle
  <2>4. CASE Apply(c)
    <3>1. CASE /\ r \in Permissions /\ call[c].choice # "once"
               /\ call'[c] = [call[c] EXCEPT !.at = "cascade"]
      <4>1. r \in Permissions /\ call[c].choice # "once" /\ call[c].held
        BY <2>4, <3>1, <1>0 DEF Apply, At, CallOf
      <4> QED BY <3>1, <4>1, <2>0, <1>c
              DEF CallOf, ChoicesOf, CallRecords, Given, GivenNext
    <3> QED BY <2>4, <3>1, <2>0, <1>4, <1>c DEF Apply
  <2>5. CASE Cascade(c)
    BY <2>5, <2>0, <1>1, <1>4, <1>c DEF Cascade
  <2> QED BY <1>5, <2>1, <2>2, <2>3, <2>4, <2>5 DEF CallStep
<1>6. ASSUME NEW p \in Procs, Crash(p) PROVE CallOf(c)'
  <2>1. \/ call'[c] = call[c]
        \/ call[c].at # "idle" /\ call'[c] = Answered(c, "lost")
    BY <1>6, <1>0, <1>c DEF Crash, CallOf
  <2> QED BY <2>1, <1>1, <1>4
<1>7. ASSUME NEW r \in Requests, AnAskStep(r)
      PROVE  call'[c] = call[c] \/ (c \in Permissions /\ Reconcile(c))
  <2>1. CASE Reconcile(r)
    BY <2>1, <1>c DEF Reconcile, Requests
  <2> QED BY <1>7, <2>1 DEF AnAskStep, AskStep, Ask, PruneRows, InsertRow, StartWait,
             Wake, Leave, Cleanup, ReadRow, Beat, Lapse, Interrupt, Abandon
<1>8. ASSUME NEW d \in Replies, CallStep(d), c # d PROVE call'[c] = call[c]
  BY <1>8, <1>c DEF CallStep, Lookup, SelectRow, UpdateRow, Apply, Cascade
<1>9. ASSUME NEW d \in Calls, NEW r \in Requests, NEW p \in Procs, NEW v \in Choices,
             Reply(d, r, p, v), c # d
      PROVE  call'[c] = call[c]
  BY <1>9, <1>c DEF Reply
<1>10. ASSUME NEW p \in Procs, Dispose(p) PROVE call'[c] = call[c]
  BY <1>10 DEF Dispose
<1>11. CASE UNCHANGED vars
  BY <1>11, <1>1 DEF vars
<1> QED BY <1>1, <1>2, <1>3, <1>5, <1>6, <1>7, <1>8, <1>9, <1>10, <1>11
        DEF Next, Rest, AnAskStep

\* Only its own steps and the end of its process move an ask.
LEMMA AskMoves ==
  ASSUME TypeOK, [Next]_vars, NEW r \in Requests
  PROVE  \/ AnAskStep(r)
         \/ /\ ask'[r] \in {ask[r], "dead"} /\ rec'[r] = rec[r]
            /\ seen'[r] = seen[r] /\ result'[r] = result[r]
<1>t. /\ ask \in [Requests -> {"new", "prune", "insert", "publish", "wait", "cleanup",
                               "over", "cut", "dead"}]
      /\ rec \in [Requests -> {"off", "poll", "apply", "await"}]
      /\ seen \in [Requests -> Choices \cup {None}]
      /\ result \in [Requests -> Choices \cup {"none", "allow", "deny", "interrupt"}]
  BY DEF TypeOK
<1>1. ASSUME NEW x \in Requests, x # r, AnAskStep(x)
      PROVE  /\ ask'[r] = ask[r] /\ rec'[r] = rec[r]
             /\ seen'[r] = seen[r] /\ result'[r] = result[r]
  BY <1>1, <1>t DEF AnAskStep, AskStep, Ask, PruneRows, InsertRow, StartWait, Wake,
       Leave, Cleanup, ReadRow, Reconcile, Beat, Lapse, Interrupt, Abandon, askVars
<1>2. ASSUME NEW c \in Calls, NEW x \in Requests, NEW p \in Procs, NEW v \in Choices,
             Reply(c, x, p, v)
      PROVE  UNCHANGED askVars
  BY <1>2 DEF Reply
<1>3. ASSUME NEW c \in Replies, CallStep(c) PROVE UNCHANGED askVars
  BY <1>3 DEF CallStep, Lookup, SelectRow, UpdateRow, Apply, Cascade
<1>4. ASSUME NEW p \in Procs, Crash(p)
      PROVE  ask'[r] \in {ask[r], "dead"} /\ UNCHANGED <<rec, seen, result>>
  BY <1>4, <1>t DEF Crash
<1>5. ASSUME NEW p \in Procs, Dispose(p) PROVE UNCHANGED askVars
  BY <1>5 DEF Dispose
<1>6. CASE UNCHANGED vars
  BY <1>6 DEF vars, askVars
<1> QED BY <1>1, <1>2, <1>3, <1>4, <1>5, <1>6 DEF Next, Rest, AnAskStep, askVars

\* Only an ask enters a request, and a process takes its entries along.
LEMMA EntryMoves ==
  ASSUME TypeOK, [Next]_vars, NEW r \in Requests
  PROVE  /\ r \in entry' => r \in entry \/ Ask(r)
         /\ ask'[r] = "dead" => ask[r] = "dead" \/ r \notin entry'
<1>t. ask \in [Requests -> {"new", "prune", "insert", "publish", "wait", "cleanup",
                            "over", "cut", "dead"}]
  BY DEF TypeOK
<1>1. ASSUME NEW x \in Requests, AnAskStep(x)
      PROVE  /\ r \in entry' => r \in entry \/ Ask(r)
             /\ ask'[r] = "dead" => ask[r] = "dead"
  BY <1>1, <1>t DEF AnAskStep, AskStep, Ask, PruneRows, InsertRow, StartWait, Wake,
       Leave, Cleanup, ReadRow, Reconcile, Beat, Lapse, Interrupt, Abandon, ApplyQuestion, askVars
<1>2. ASSUME NEW c \in Calls, NEW x \in Requests, NEW p \in Procs, NEW v \in Choices,
             Reply(c, x, p, v)
      PROVE  UNCHANGED <<entry, ask>>
  BY <1>2 DEF Reply, askVars
<1>3. ASSUME NEW c \in Replies, CallStep(c)
      PROVE  entry' \subseteq entry /\ UNCHANGED ask
  BY <1>3 DEF CallStep, Lookup, SelectRow, UpdateRow, Apply, ApplyQuestion,
       ApplyPermission, Cascade, askVars
<1>4. ASSUME NEW p \in Procs, Crash(p)
      PROVE  /\ entry' \subseteq entry
             /\ ask'[r] = "dead" => ask[r] = "dead" \/ r \notin entry'
  BY <1>4, <1>t DEF Crash
<1>5. ASSUME NEW p \in Procs, Dispose(p) PROVE entry' \subseteq entry /\ UNCHANGED ask
  BY <1>5 DEF Dispose, askVars
<1>6. CASE UNCHANGED vars
  BY <1>6 DEF vars, askVars
<1> QED BY <1>1, <1>2, <1>3, <1>4, <1>5, <1>6 DEF Next, Rest, AnAskStep

LEMMA RowsStep == IInv /\ [Next]_vars => RowsInv'
<1> SUFFICES ASSUME IInv, [Next]_vars, NEW r \in Requests PROVE RowOf(r)'
  BY DEF RowsInv
<1> USE RequestsAssumption
<1>0. TypeOK /\ CallsInv /\ RowsInv /\ RowOf(r)
  BY DEF IInv, RowsInv
<1>v. \A v : Given(r, v) => GivenNext(r, v)
  BY <1>0, GivenGrows DEF Given, GivenNext
<1>g. ask[r] \notin Early => ask'[r] \notin Early
  BY <1>0, OnlyGrows
<1>m. RowMove(r)
  BY <1>0, RowMoves
<1>n. \A v \in ChoicesOf(r) : v \notin {"absent", "pending", None}
  BY DEF ChoicesOf, Choices
<1>t. /\ ask[r] \in {"new", "prune", "insert", "publish", "wait", "cleanup", "over", "cut",
                   "dead"}
      /\ ask \in [Requests -> {"new", "prune", "insert", "publish", "wait", "cleanup",
                               "over", "cut", "dead"}]
      /\ rec \in [Requests -> {"off", "poll", "apply", "await"}]
      /\ seen \in [Requests -> Choices \cup {None}]
  BY <1>0 DEF TypeOK
<1>1. ask'[r] \in Early => row'[r] = "absent"
  BY <1>0, <1>g, <1>m DEF RowMove, RowOf, Early
<1>2. row'[r] \notin {"absent", "pending"} =>
         row'[r] \in ChoicesOf(r) /\ GivenNext(r, row'[r])
  <2>1. ASSUME NEW c \in Replies, call[c].at = "update", call[c].req = r
        PROVE  call[c].choice \in ChoicesOf(r) /\ Given(r, call[c].choice)
    BY <2>1, <1>0 DEF CallsInv, CallOf
  <2> QED BY <2>1, <1>0, <1>v, <1>m DEF RowMove, RowOf, Settled
<1>3. /\ ask'[r] \in Before => seen'[r] = None /\ rec'[r] = "off"
      /\ rec'[r] = "poll" => seen'[r] = None
      /\ rec'[r] = "apply" => seen'[r] # None
      /\ seen'[r] # None => \/ seen'[r] = seen[r]
                            \/ seen'[r] = row[r] /\ row'[r] = row[r] /\ Settled(r)
  <2>1. CASE Ask(r) \/ PruneRows(r) \/ InsertRow(r)
    BY <2>1, <1>0, <1>t DEF Ask, PruneRows, InsertRow, RowOf, Before, Early
  <2>2. CASE StartWait(r)
    BY <2>2, <1>0, <1>t DEF StartWait, RowOf, Before, Early
  <2>3. CASE Wake(r) \/ Interrupt(r)
    BY <2>3, <1>0, <1>t DEF Wake, Interrupt, Leave, RowOf, Before, Early
  <2>9. CASE Abandon(r)
    BY <2>9, <1>0, <1>t DEF Abandon, RowOf, Before, Early
  <2>4. CASE Cleanup(r)
    BY <2>4, <1>0, <1>t DEF Cleanup, RowOf, Before, Early
  <2>5. CASE ReadRow(r)
    <3>1. row[r] # None
      BY <2>5, <1>0, <1>n DEF ReadRow, RowOf
    <3> QED BY <2>5, <3>1, <1>0, <1>t DEF ReadRow, RowOf, Before, Early
  <2>6. CASE Reconcile(r)
    BY <2>6, <1>0, <1>t DEF Reconcile, RowOf, Before, Early
  <2>7. CASE Beat(r) \/ Lapse(r)
    BY <2>7, <1>0, <1>t DEF Beat, Lapse, RowOf, askVars
  <2>8. CASE /\ ask'[r] \in {ask[r], "dead"} /\ rec'[r] = rec[r]
             /\ seen'[r] = seen[r] /\ result'[r] = result[r]
    BY <2>8, <1>0 DEF RowOf, Before, Early
  <2> QED BY <2>1, <2>2, <2>3, <2>4, <2>5, <2>6, <2>7, <2>8, <2>9, <1>0, AskMoves
          DEF AnAskStep, AskStep
<1>4. seen'[r] # None => /\ seen'[r] \in ChoicesOf(r)
                         /\ GivenNext(r, seen'[r])
                         /\ row'[r] \in {"absent", seen'[r]}
  <2>1. CASE seen'[r] = seen[r] /\ seen[r] # None
    <3>1. seen[r] \in ChoicesOf(r) /\ GivenNext(r, seen[r]) /\ row[r] \in {"absent", seen[r]}
      BY <2>1, <1>0, <1>v DEF RowOf
    <3>2. ask[r] # "insert" /\ row[r] # "pending"
      BY <3>1, <2>1, <1>0, <1>n DEF RowOf, Before, Early
    <3> QED BY <2>1, <3>1, <3>2, <1>m DEF RowMove
  <2>2. CASE seen'[r] = row[r] /\ row'[r] = row[r] /\ Settled(r)
    BY <2>2, <1>2 DEF Settled
  <2> QED BY <2>1, <2>2, <1>3
<1> QED BY <1>1, <1>2, <1>3, <1>4 DEF RowOf, ChoicesOf, Given, GivenNext, Settled

LEMMA AskStepInv == IInv /\ [Next]_vars => AskInv'
<1> SUFFICES ASSUME IInv, [Next]_vars, NEW r \in Requests PROVE AskOf(r)'
  BY DEF AskInv
<1> USE RequestsAssumption
<1>0. TypeOK /\ CallsInv /\ RowsInv /\ RowOf(r) /\ AskOf(r)
  BY DEF IInv, RowsInv, AskInv
<1>m. RowMove(r)
  BY <1>0, RowMoves
<1>h. hurt \subseteq hurt'
  BY <1>0, OnlyGrows
<1>t. /\ ask \in [Requests -> {"new", "prune", "insert", "publish", "wait", "cleanup",
                               "over", "cut", "dead"}]
      /\ result \in [Requests -> Choices \cup {"none", "allow", "deny", "interrupt"}]
      /\ row \in [Requests -> {"absent", "pending"} \cup Choices]
  BY <1>0 DEF TypeOK
<1>1. ask'[r] \in Before \cup {"wait"} => result'[r] = "none"
  <2>1. CASE AnAskStep(r)
    BY <2>1, <1>0, <1>t DEF AnAskStep, AskStep, Ask, PruneRows, InsertRow, StartWait,
         Wake, Leave, Cleanup, ReadRow, Reconcile, Beat, Lapse, Interrupt, Abandon, askVars,
         AskOf, Before, Early
  <2> QED BY <2>1, <1>0, AskMoves DEF AskOf, Before, Early
<1>2. ask'[r] \in {"new", "cleanup", "over", "dead"} => r \notin entry'
  <2>1. CASE AnAskStep(r)
    BY <2>1, <1>0, <1>t DEF AnAskStep, AskStep, Ask, PruneRows, InsertRow, StartWait,
         Wake, Leave, Cleanup, ReadRow, Reconcile, Beat, Lapse, Interrupt, Abandon,
         ApplyQuestion, askVars, AskOf
  <2> QED BY <2>1, <1>0, AskMoves, EntryMoves DEF AskOf, AnAskStep, AskStep
<1>3. ASSUME r \notin hurt'
      PROVE  /\ ask'[r] \in {"publish", "wait"} => row'[r] # "absent"
             /\ ask'[r] = "over" => row'[r] # "pending"
  <2>0. r \notin hurt
    BY <1>3, <1>h
  <2>1. CASE PruneRows(r)
    BY <2>1, <1>3, <1>t DEF PruneRows, Store
  <2>2. CASE InsertRow(r)
    BY <2>2, <1>3, <1>t DEF InsertRow, Store, Insert
  <2>3. CASE Cleanup(r)
    BY <2>3, <1>3, <1>t DEF Cleanup, Store, Discard
  <2>4. CASE Ask(r)
    BY <2>4, <1>0, <1>t DEF Ask, RowOf, Early
  <2>5. CASE \/ StartWait(r) \/ Wake(r) \/ Interrupt(r) \/ Abandon(r) \/ ReadRow(r)
             \/ Reconcile(r) \/ Beat(r) \/ Lapse(r)
    BY <2>0, <2>5, <1>0, <1>t DEF StartWait, Wake, Interrupt, Abandon, Leave, ReadRow, Reconcile,
         Beat, Lapse, askVars, AskOf
  <2>6. CASE ask'[r] \in {ask[r], "dead"}
    <3>1. ASSUME NEW c \in Replies, call[c].at = "update", call[c].req = r
          PROVE  call[c].choice \notin {"absent", "pending"}
      BY <3>1, <1>0 DEF CallsInv, CallOf, ChoicesOf
    <3> QED BY <2>0, <2>6, <3>1, <1>3, <1>0, <1>m DEF RowMove, AskOf
  <2> QED BY <2>1, <2>2, <2>3, <2>4, <2>5, <2>6, <1>0, AskMoves
          DEF AnAskStep, AskStep
<1> QED BY <1>1, <1>2, <1>3 DEF AskOf

\* The three ways to move a question's outcome.
QuestionMove(q) ==
    \/ told'[q] = told[q] /\ deferred'[q] = deferred[q]
    \/ /\ q \in entry /\ q \notin entry'
       /\ told'[q] = told[q]
       /\ deferred'[q] = IF deferred[q] = "open" THEN "reject" ELSE deferred[q]
       /\ UNCHANGED <<row, ask, seen, result, hurt>>
    \/ /\ q \in entry /\ q \notin entry'
       /\ \E v : /\ told'[q] = Append(told[q], v)
                 /\ deferred'[q] = IF deferred[q] = "open" THEN v ELSE deferred[q]
                 /\ \/ ask[q] = "wait" /\ rec[q] = "apply" /\ v = seen[q]
                    \/ \E c \in Replies : /\ call[c].at = "apply"
                                          /\ call[c].req = q /\ v = call[c].choice
       /\ UNCHANGED <<row, ask, seen, result, hurt>>

LEMMA QuestionMoves ==
  ASSUME TypeOK, [Next]_vars, NEW q \in Questions
  PROVE  QuestionMove(q)
<1> USE RequestsAssumption
<1>t. /\ told \in [Requests -> Seq(Choices)]
      /\ deferred \in [Requests -> {"open"} \cup Choices]
      /\ q \in Requests /\ q \notin Permissions
  BY DEF TypeOK, Requests
<1>0. CASE UNCHANGED <<told, deferred>>
  BY <1>0 DEF QuestionMove
<1>1. ASSUME NEW x \in Requests, Reconcile(x) PROVE QuestionMove(q)
  BY <1>1, <1>t DEF Reconcile, ApplyQuestion, Complete, QuestionMove
<1>2. ASSUME NEW c \in Replies, Apply(c) PROVE QuestionMove(q)
  <2>1. CASE call[c].req \in Questions /\ ApplyQuestion(call[c].req, call[c].choice)
    <3>1. CASE call[c].req = q /\ q \in entry
      <4>1. told'[q] = Append(told[q], call[c].choice)
        BY <2>1, <3>1, <1>t DEF ApplyQuestion
      <4>2. deferred'[q] = IF deferred[q] = "open" THEN call[c].choice ELSE deferred[q]
        BY <2>1, <3>1, <1>t DEF ApplyQuestion, Complete
      <4>3. q \notin entry' /\ UNCHANGED <<row, ask, seen, result, hurt>>
        BY <1>2, <2>1, <3>1 DEF Apply, ApplyQuestion, askVars
      <4>4. call[c].at = "apply"
        BY <1>2 DEF Apply, At
      <4> QED BY <3>1, <4>1, <4>2, <4>3, <4>4 DEF QuestionMove
    <3>2. CASE ~(call[c].req = q /\ q \in entry)
      BY <2>1, <3>2, <1>t DEF ApplyQuestion, Complete, QuestionMove
    <3> QED BY <3>1, <3>2
  <2>2. CASE call[c].req \in Permissions /\ ApplyPermission(call[c].req, call[c].choice)
    BY <2>2, <1>t DEF ApplyPermission, Complete, QuestionMove
  <2> QED BY <1>2, <2>1, <2>2 DEF Apply
<1>3. ASSUME NEW c \in Replies, Cascade(c) PROVE QuestionMove(q)
  BY <1>3, <1>t DEF Cascade, CascadeOf, Complete, QuestionMove
<1>4. ASSUME NEW p \in Procs, Dispose(p) PROVE QuestionMove(q)
  BY <1>4, <1>t DEF Dispose, Complete, QuestionMove, askVars
<1>5. ASSUME NEW x \in Requests, AnAskStep(x)
      PROVE  UNCHANGED <<told, deferred>> \/ Reconcile(x)
  BY <1>5 DEF AnAskStep, AskStep, Ask, PruneRows, InsertRow, StartWait, Wake, Leave,
       Cleanup, ReadRow, Beat, Lapse, Interrupt, Abandon
<1>6. ASSUME NEW c \in Calls, NEW x \in Requests, NEW p \in Procs, NEW v \in Choices,
             Reply(c, x, p, v)
      PROVE  UNCHANGED <<told, deferred>>
  BY <1>6 DEF Reply
<1>7. ASSUME NEW c \in Replies, CallStep(c)
      PROVE  UNCHANGED <<told, deferred>> \/ Apply(c) \/ Cascade(c)
  BY <1>7 DEF CallStep, Lookup, SelectRow, UpdateRow
<1>8. ASSUME NEW p \in Procs, Crash(p) PROVE UNCHANGED <<told, deferred>>
  BY <1>8 DEF Crash
<1>9. CASE UNCHANGED vars
  BY <1>0, <1>9 DEF vars
<1> QED BY <1>0, <1>1, <1>2, <1>3, <1>4, <1>5, <1>6, <1>7, <1>8, <1>9
        DEF Next, Rest, AnAskStep

LEMMA QuestionsStep == IInv /\ [Next]_vars => QuestionsInv'
<1> SUFFICES ASSUME IInv, [Next]_vars, NEW q \in Questions PROVE QuestionOf(q)'
  BY DEF QuestionsInv
<1> USE RequestsAssumption
<1>0. /\ TypeOK /\ CallsInv /\ q \in Requests /\ q \notin Permissions
      /\ RowOf(q) /\ AskOf(q) /\ QuestionOf(q)
  BY DEF IInv, RowsInv, AskInv, QuestionsInv, Requests
<1>q. QuestionMove(q)
  BY <1>0, QuestionMoves
<1>m. RowMove(q)
  BY <1>0, RowMoves
<1>g. hurt \subseteq hurt' /\ (ask[q] \notin Early => ask'[q] \notin Early)
  BY <1>0, OnlyGrows
<1>e. q \in entry' => q \in entry \/ ask[q] = "new"
  BY <1>0, EntryMoves DEF Ask
<1>c. ASSUME NEW c \in Replies, call[c].req = q, call[c].at = "apply"
      PROVE  /\ c \in Calls /\ call[c].held
             /\ q \notin hurt => row[q] # "pending" /\ ask[q] \notin Early
  BY <1>c, <1>0 DEF CallsInv, CallOf, Replies
<1>t. /\ deferred[q] \in {"open"} \cup Choices
      /\ ask[q] \in {"new", "prune", "insert", "publish", "wait", "cleanup", "over", "cut",
                   "dead"}
      /\ ask \in [Requests -> {"new", "prune", "insert", "publish", "wait", "cleanup",
                               "over", "cut", "dead"}]
      /\ seen \in [Requests -> Choices \cup {None}]
      /\ result \in [Requests -> Choices \cup {"none", "allow", "deny", "interrupt"}]
  BY <1>0 DEF TypeOK
<1>n. ask'[q] = "new" => ask[q] = "new"
  <2>1. CASE AnAskStep(q)
    BY <2>1, <1>t, <1>0 DEF AnAskStep, AskStep, Ask, PruneRows, InsertRow, StartWait, Wake,
         Leave, Cleanup, ReadRow, Reconcile, Beat, Lapse, Interrupt, Abandon, askVars
  <2> QED BY <2>1, <1>0, AskMoves
<1>1. ask'[q] = "new" \/ q \in entry' => told'[q] = <<>> /\ deferred'[q] = "open"
  BY <1>0, <1>q, <1>e, <1>n DEF QuestionMove, QuestionOf, AskOf
<1>2. told'[q] # <<>> => told'[q] = <<deferred'[q]>>
  BY <1>0, <1>q DEF QuestionMove, QuestionOf
<1>3. told'[q] # <<>> /\ q \notin hurt' => row'[q] # "pending" /\ ask'[q] \notin Early
  <2>1. CASE told'[q] = told[q]
    BY <2>1, <1>0, <1>m, <1>g DEF RowMove, QuestionOf, Early
  <2>2. CASE told'[q] # told[q]
    <3>1. /\ UNCHANGED <<row, ask>>
          /\ \/ ask[q] = "wait" /\ rec[q] = "apply"
             \/ \E c \in Replies : call[c].at = "apply" /\ call[c].req = q
      BY <2>2, <1>q DEF QuestionMove
    <3>2. ask[q] = "wait" /\ rec[q] = "apply" => row[q] # "pending" /\ ask[q] \notin Early
      BY <1>0 DEF RowOf, Early, ChoicesOf
    <3> QED BY <3>1, <3>2, <1>c, <1>g
  <2> QED BY <2>1, <2>2
<1>4. result'[q] \notin {"none", "interrupt"} =>
         result'[q] = deferred'[q] /\ deferred'[q] # "open"
  <2>1. \/ result'[q] \in {result[q], "interrupt"}
        \/ result'[q] = deferred[q] /\ deferred[q] # "open" /\ UNCHANGED deferred
    <3>1. CASE AnAskStep(q)
      BY <3>1, <1>t, <1>0 DEF AnAskStep, AskStep, Ask, PruneRows, InsertRow, StartWait,
           Wake, Leave, Cleanup, ReadRow, Reconcile, Beat, Lapse, Interrupt, Abandon, askVars
    <3> QED BY <3>1, <1>0, AskMoves
  <2> QED BY <2>1, <1>0, <1>q DEF QuestionMove, QuestionOf
<1>5. (\A c \in Calls : call'[c].req = q => ~call'[c].held) =>
         deferred'[q] \in {"open", "reject", seen'[q]}
  <2> SUFFICES ASSUME \A c \in Calls : call'[c].req = q => ~call'[c].held
               PROVE  deferred'[q] \in {"open", "reject", seen'[q]}
    OBVIOUS
  <2>1. ASSUME NEW c \in Calls, call[c].req = q PROVE ~call[c].held
    <3>1. call[c].at # "idle"
      BY <2>1, <1>0 DEF CallsInv, CallOf, Replies
    <3> QED BY <2>1, <3>1, <1>0, CallKeeps
  <2>2. deferred[q] \in {"open", "reject", seen[q]}
    BY <2>1, <1>0 DEF QuestionOf
  <2>3. seen'[q] = seen[q] \/ seen[q] = None
    <3>1. CASE AnAskStep(q)
      BY <3>1, <1>t, <1>0 DEF AnAskStep, AskStep, Ask, PruneRows, InsertRow, StartWait,
           Wake, Leave, Cleanup, ReadRow, Reconcile, Beat, Lapse, Interrupt, Abandon, askVars, RowOf
    <3> QED BY <3>1, <1>0, AskMoves
  <2>4. deferred[q] \in {"open", "reject", seen'[q]}
    BY <2>2, <2>3, <1>t
  <2> QED BY <2>1, <2>4, <1>q, <1>c DEF QuestionMove
<1> QED BY <1>1, <1>2, <1>3, <1>4, <1>5 DEF QuestionOf

\* The four ways to move the outcome of a permission.
GrantMove(m) ==
    \/ deferred'[m] \in {deferred[m], "reject"}
    \/ \E c \in Replies : /\ call[c].at = "apply" /\ call[c].req = m
                          /\ deferred'[m] = call[c].choice
    \/ \E c \in Replies : /\ call[c].at = "cascade"
                          /\ m \in CascadeOf(call[c].req, call[c].choice)
                          /\ deferred'[m] = call[c].choice

LEMMA GrantMoves ==
  ASSUME TypeOK, [Next]_vars, NEW m \in Permissions
  PROVE  GrantMove(m)
<1> USE RequestsAssumption
<1>t. /\ deferred \in [Requests -> {"open"} \cup Choices]
      /\ m \in Requests /\ m \notin Questions
  BY DEF TypeOK, Requests
<1>0. CASE UNCHANGED deferred
  BY <1>0 DEF GrantMove
<1>1. ASSUME NEW x \in Requests, Reconcile(x) PROVE GrantMove(m)
  BY <1>1, <1>t DEF Reconcile, ApplyQuestion, Complete, GrantMove
<1>2. ASSUME NEW c \in Replies, Apply(c) PROVE GrantMove(m)
  BY <1>2, <1>t DEF Apply, At, ApplyQuestion, ApplyPermission, Complete, GrantMove
<1>3. ASSUME NEW c \in Replies, Cascade(c) PROVE GrantMove(m)
  <2>1. deferred'[m] \in {deferred[m], call[c].choice}
    BY <1>3, <1>t DEF Cascade, CascadeOf, Complete
  <2>2. deferred'[m] # deferred[m] => m \in CascadeOf(call[c].req, call[c].choice)
    BY <1>3, <1>t DEF Cascade, Complete
  <2> QED BY <1>3, <2>1, <2>2 DEF Cascade, At, GrantMove
<1>4. ASSUME NEW p \in Procs, Dispose(p) PROVE GrantMove(m)
  BY <1>4, <1>t DEF Dispose, Complete, GrantMove
<1>5. ASSUME NEW x \in Requests, AnAskStep(x)
      PROVE  UNCHANGED deferred \/ Reconcile(x)
  BY <1>5 DEF AnAskStep, AskStep, Ask, PruneRows, InsertRow, StartWait, Wake, Leave,
       Cleanup, ReadRow, Beat, Lapse, Interrupt, Abandon
<1>6. ASSUME NEW c \in Calls, NEW x \in Requests, NEW p \in Procs, NEW v \in Choices,
             Reply(c, x, p, v)
      PROVE  UNCHANGED deferred
  BY <1>6 DEF Reply
<1>7. ASSUME NEW c \in Replies, CallStep(c)
      PROVE  UNCHANGED deferred \/ Apply(c) \/ Cascade(c)
  BY <1>7 DEF CallStep, Lookup, SelectRow, UpdateRow
<1>8. ASSUME NEW p \in Procs, Crash(p) PROVE UNCHANGED deferred
  BY <1>8 DEF Crash
<1>9. CASE UNCHANGED vars
  BY <1>0, <1>9 DEF vars
<1> QED BY <1>0, <1>1, <1>2, <1>3, <1>4, <1>5, <1>6, <1>7, <1>8, <1>9
        DEF Next, Rest, AnAskStep

\* A process approves a pattern only while it applies an "always".
LEMMA ApprovedMoves ==
  ASSUME TypeOK, [Next]_vars, NEW p \in Procs, NEW x \in approved'[p]
  PROVE  \/ x \in approved[p]
         \/ \E c \in Replies : /\ call[c].at = "apply"
                               /\ call[c].req \in Permissions
                               /\ call[c].choice = "always"
                               /\ Home[call[c].req] = p
                               /\ PatternOf[call[c].req] = x
<1>t. approved \in [Procs -> SUBSET {PatternOf[m] : m \in Permissions}]
  BY DEF TypeOK
<1>0. CASE UNCHANGED approved
  BY <1>0
<1>1. ASSUME NEW c \in Replies, Apply(c), ~UNCHANGED approved
      PROVE  /\ call[c].at = "apply" /\ call[c].req \in Permissions
             /\ call[c].choice = "always"
             /\ approved' = [approved EXCEPT ![Home[call[c].req]] =
                               @ \cup {PatternOf[call[c].req]}]
  <2>1. /\ call[c].at = "apply" /\ call[c].req \in Permissions
        /\ approved' = [approved EXCEPT ![Home[call[c].req]] =
                          IF call[c].choice = "always"
                             THEN @ \cup {PatternOf[call[c].req]} ELSE @]
    BY <1>1 DEF Apply, At, ApplyPermission
  <2> QED BY <2>1, <1>1, <1>t
<1>2. ASSUME NEW q \in Procs, Dispose(q) \/ Crash(q) PROVE approved'[p] \subseteq approved[p]
  BY <1>2, <1>t DEF Dispose, Crash
<1>3. ASSUME NEW r \in Requests, AnAskStep(r) PROVE UNCHANGED approved
  BY <1>3 DEF AnAskStep, AskStep, Ask, PruneRows, InsertRow, StartWait, Wake, Leave,
       Cleanup, ReadRow, Reconcile, Beat, Lapse, Interrupt, Abandon
<1>4. ASSUME NEW c \in Calls, NEW r \in Requests, NEW q \in Procs, NEW v \in Choices,
             Reply(c, r, q, v)
      PROVE  UNCHANGED approved
  BY <1>4 DEF Reply
<1>5. ASSUME NEW c \in Replies, CallStep(c) PROVE UNCHANGED approved \/ Apply(c)
  BY <1>5 DEF CallStep, Lookup, SelectRow, UpdateRow, Cascade
<1>6. CASE UNCHANGED vars
  BY <1>0, <1>6 DEF vars
<1>7. ASSUME NEW c \in Replies, Apply(c), ~UNCHANGED approved
      PROVE  \/ x \in approved[p]
             \/ Home[call[c].req] = p /\ PatternOf[call[c].req] = x
  BY <1>7, <1>1, <1>t
<1> QED BY <1>0, <1>1, <1>2, <1>3, <1>4, <1>5, <1>6, <1>7 DEF Next, Rest, AnAskStep

LEMMA GrantStep == IInv /\ [Next]_vars => GrantHasCause'
<1> SUFFICES ASSUME IInv, [Next]_vars PROVE GrantHasCause'
  OBVIOUS
<1> USE RequestsAssumption
<1>0. TypeOK /\ CallsInv /\ GrantHasCause
  BY DEF IInv
<1>v. \A r \in Requests : \A v : Given(r, v) => GivenNext(r, v)
  BY <1>0, GivenGrows DEF Given, GivenNext
<1>c. ASSUME NEW c \in Replies, call[c].at # "idle"
      PROVE  /\ GivenNext(call[c].req, call[c].choice)
             /\ call[c].at = "cascade" => call[c].req \in Permissions /\ call[c].choice # "once"
  BY <1>c, <1>0, <1>v DEF CallsInv, CallOf
<1> DEFINE Approved(p, x) == \E m \in Permissions : /\ Home[m] = p /\ PatternOf[m] = x
                                                    /\ GivenNext(m, "always")
<1>a. \A p, x : Approvable(p, x) => Approved(p, x)
  BY <1>v DEF Approvable, Requests
<1> DEFINE Caused(m) ==
             /\ deferred'[m] = "once" => GivenNext(m, "once")
             /\ deferred'[m] = "always" =>
                   /\ Approved(Home[m], PatternOf[m])
                   /\ \E n \in Permissions : /\ Home[n] = Home[m]
                                             /\ SessionOf[n] = SessionOf[m]
                                             /\ GivenNext(n, "always")
<1>1. ASSUME NEW m \in Permissions PROVE Caused(m)
  <2>1. CASE deferred'[m] \in {deferred[m], "reject"}
    BY <2>1, <1>0, <1>v, <1>a DEF GrantHasCause, Requests
  <2>2. ASSUME NEW c \in Replies, call[c].at = "apply", call[c].req = m,
               deferred'[m] = call[c].choice
        PROVE  GivenNext(m, deferred'[m])
    BY <2>2, <1>c
  <2>3. ASSUME NEW c \in Replies, call[c].at = "cascade",
               m \in CascadeOf(call[c].req, call[c].choice),
               deferred'[m] = call[c].choice
        PROVE  Caused(m)
    <3>1. /\ call[c].req \in Permissions /\ call[c].choice # "once"
          /\ GivenNext(call[c].req, call[c].choice)
      BY <2>3, <1>c
    <3>2. /\ Home[m] = Home[call[c].req] /\ SessionOf[m] = SessionOf[call[c].req]
          /\ call[c].choice = "always" => PatternOf[m] \in approved[Home[m]]
      BY <2>3 DEF CascadeOf
    <3>3. Home[m] \in Procs
      BY DEF Requests
    <3>4. call[c].choice = "always" => Approved(Home[m], PatternOf[m])
      BY <3>2, <3>3, <1>0, <1>a DEF GrantHasCause
    <3> QED BY <2>3, <3>1, <3>2, <3>4
  <2> QED BY <2>1, <2>2, <2>3, <1>0, GrantMoves DEF GrantMove
<1>2. ASSUME NEW p \in Procs, NEW x \in approved'[p] PROVE Approved(p, x)
  <2>1. CASE x \in approved[p]
    BY <2>1, <1>0, <1>a DEF GrantHasCause
  <2>2. ASSUME NEW c \in Replies, call[c].at = "apply", call[c].req \in Permissions,
               call[c].choice = "always", Home[call[c].req] = p,
               PatternOf[call[c].req] = x
        PROVE  Approved(p, x)
    BY <2>2, <1>c
  <2> QED BY <2>1, <2>2, <1>0, ApprovedMoves
<1> QED BY <1>1, <1>2 DEF GrantHasCause, Approvable, Given, GivenNext

-----------------------------------------------------------------------------
(* The theorems                                                            *)

LEMMA Invariance == Spec => []IInv
<1>1. IInv /\ [Next]_vars => IInv'
  BY TypeStep, CallsStep, RowsStep, AskStepInv, QuestionsStep, GrantStep DEF IInv
<1> QED BY InitIInv, <1>1, PTL DEF Spec

(* Every step of asks, replies, reconcile loops, disposals and crashes      *)
(* keeps the types: a reconcile loop never applies an unsettled row.       *)
THEOREM TypeCorrect == Spec => []TypeOK
<1>1. IInv => TypeOK
  BY DEF IInv
<1> QED BY Invariance, <1>1, PTL

(* Question.applyReply and applyReject: any number of racing replies,      *)
(* rejects and recorded resolutions publish at most one outcome.           *)
THEOREM OneAnswer == Spec => []AnsweredOnce
<1>1. IInv => AnsweredOnce
  <2> SUFFICES ASSUME IInv, NEW q \in Questions
               PROVE  Len(told[q]) <= 1 /\ (told[q] # <<>> => deferred[q] = told[q][1])
    BY DEF AnsweredOnce
  <2>1. told[q] = <<>> \/ told[q] = <<deferred[q]>>
    BY DEF IInv, QuestionsInv, QuestionOf
  <2>2. CASE told[q] = <<>>
    BY <2>2
  <2>3. CASE told[q] = <<deferred[q]>>
    BY <2>3
  <2> QED BY <2>1, <2>2, <2>3
<1> QED BY Invariance, <1>1, PTL

(* Permission.reply and its cascade: in any number of sessions, processes  *)
(* and patterns, a permission is granted only by a grant somebody gave.    *)
THEOREM NoGrantWithoutCause == Spec => []GrantHasCause
<1>1. IInv => GrantHasCause
  BY DEF IInv
<1> QED BY Invariance, <1>1, PTL

(* Question.reply settles the row before it wakes the ask: the cleanup of  *)
(* an answered question never discards its row.                            *)
THEOREM SettlesFirst == Spec => []SettledBeforeCleanup
<1>1. IInv => SettledBeforeCleanup
  BY DEF IInv, QuestionsInv, QuestionOf, SettledBeforeCleanup
<1> QED BY Invariance, <1>1, PTL

(* list: what waits is shown by every process, and what ended its wait by  *)
(* none.                                                                   *)
THEOREM OpenIsListed == Spec => []ListedWhileOpen
<1>1. IInv => ListedWhileOpen
  <2> SUFFICES ASSUME IInv, NEW r \in Requests \ hurt, NEW p \in up
               PROVE  /\ ask[r] = "wait" /\ r \in entry =>
                            Listed(p, r) \/ stale[r] \/ Settled(r)
                      /\ ask[r] = "over" => ~Listed(p, r)
    BY DEF ListedWhileOpen
  <2>1. AskOf(r)
    BY DEF IInv, AskInv
  <2> QED BY <2>1 DEF AskOf, Listed, Settled
<1> QED BY Invariance, <1>1, PTL

(* replyThroughStore: a resolution recorded by other processes is what the *)
(* asker gets.                                                             *)
THEOREM RecordedReturns == Spec => []RecordedIsReturned
<1>1. IInv => RecordedIsReturned
  <2> SUFFICES ASSUME IInv, NEW q \in Questions, Settled(q),
                      \A c \in Calls : call[c].req = q => ~call[c].held
               PROVE  result[q] \in {"none", row[q], "interrupt", "reject"}
    BY DEF RecordedIsReturned
  <2>1. QuestionOf(q) /\ RowOf(q)
    BY DEF IInv, QuestionsInv, RowsInv, Requests
  <2>2. deferred[q] \in {"open", "reject", seen[q]}
    BY <2>1 DEF QuestionOf
  <2>3. deferred[q] \in {"open"} \cup Choices /\ None \notin Choices
    BY RequestsAssumption DEF IInv, TypeOK, Requests
  <2>4. deferred[q] \in {"open", "reject", row[q]}
    BY <2>1, <2>2, <2>3 DEF RowOf, Settled
  <2> QED BY <2>1, <2>4 DEF QuestionOf
<1> QED BY Invariance, <1>1, PTL

-----------------------------------------------------------------------------
(* The refinement                                                          *)

\* A step that leaves row, ask and result alone is a stutter of Settlement.
LEMMA Stutters ==
  ASSUME UNCHANGED <<row, ask, result>>
  PROVE  UNCHANGED <<[r \in Requests |-> CellOf(r)], result>>
BY DEF CellOf

\* The requests whose cells a step forgets.
LEMMA Forgets ==
  ASSUME NEW S \in SUBSET Requests, UNCHANGED result,
         \A r \in S : CellOf(r)' = "gone",
         \A r \in Requests \ S : CellOf(r)' = CellOf(r)
  PROVE  [Abstract!Next]_<<[r \in Requests |-> CellOf(r)], result>>
<1>1. CASE S = {}
  BY <1>1
<1>2. CASE S # {}
  <2>1. Abstract!Forget(S)
    BY <1>2 DEF Abstract!Forget
  <2> QED BY <2>1 DEF Abstract!Next
<1> QED BY <1>1, <1>2

(* recordPending, settlePending, discardPending and the asks around them   *)
(* implement the write-once cells: the first settler wins, a resolution is *)
(* never overwritten, what is gone does not come back, an ask returns once. *)
THEOREM ImplementsSettlement == Spec => WriteOnce
<1> USE RequestsAssumption
<1> DEFINE cells == [r \in Requests |-> CellOf(r)]
<1>1. Init => Abstract!Init
  BY DEF Init, Abstract!Init, CellOf
<1>2. ASSUME IInv, [Next]_vars PROVE [Abstract!Next]_<<cells, result>>
  <2>0. TypeOK /\ CallsInv /\ RowsInv /\ AskInv
    BY <1>2 DEF IInv
  <2>t. /\ row \in [Requests -> {"absent", "pending"} \cup Choices]
        /\ ask \in [Requests -> {"new", "prune", "insert", "publish", "wait", "cleanup",
                                 "over", "cut", "dead"}]
        /\ result \in [Requests -> Choices \cup {"none", "allow", "deny", "interrupt"}]
        /\ deferred \in [Requests -> {"open"} \cup Choices]
    BY <2>0 DEF TypeOK
  <2>1. ASSUME NEW r \in Requests, Ask(r) PROVE [Abstract!Next]_<<cells, result>>
    <3>0. ask[r] = "new" /\ row[r] = "absent" /\ result[r] = "none" /\ UNCHANGED row
      BY <2>1, <2>0 DEF Ask, RowsInv, RowOf, AskInv, AskOf, Early, Before
    <3>1. CASE ask' = [ask EXCEPT ![r] = "prune"] /\ result' = result
      BY <3>0, <3>1, <2>t DEF CellOf
    <3>2. ASSUME NEW rule \in {"allow", "deny"}, ask' = [ask EXCEPT ![r] = "over"],
                 result' = [result EXCEPT ![r] = rule]
          PROVE  Abstract!Waive(r, rule)
      BY <3>0, <3>2, <2>t DEF Abstract!Waive, CellOf
    <3>3. \/ ask' = [ask EXCEPT ![r] = "prune"] /\ result' = result
          \/ \E rule \in {"allow", "deny"} : /\ ask' = [ask EXCEPT ![r] = "over"]
                                             /\ result' = [result EXCEPT ![r] = rule]
      BY <2>1, <2>t DEF Ask, Evaluate
    <3> QED BY <3>1, <3>2, <3>3 DEF Abstract!Next
  <2>2. ASSUME NEW r \in Requests, PruneRows(r) PROVE [Abstract!Next]_<<cells, result>>
    <3>0. ask[r] = "prune" /\ row[r] = "absent" /\ UNCHANGED result
      BY <2>2, <2>0 DEF PruneRows, RowsInv, RowOf, Early
    <3>1. CASE /\ row' = [x \in Requests |-> IF x \in Expired(r) THEN "absent" ELSE row[x]]
               /\ ask' = [ask EXCEPT ![r] = "insert"]
      <4>1. \A x \in Expired(r) : x \in Requests /\ x # r /\ ask[x] \notin Early
        BY <3>0, <2>0 DEF Expired, RowsInv, RowOf
      <4>2. \A x \in Expired(r) : CellOf(x)' = "gone"
        BY <3>1, <4>1, <2>t DEF CellOf, Early
      <4>3. \A x \in Requests \ Expired(r) : CellOf(x)' = CellOf(x)
        BY <3>0, <3>1, <2>t DEF CellOf
      <4>4. Expired(r) \in SUBSET Requests
        BY DEF Expired
      <4> QED BY <3>0, <4>2, <4>3, <4>4, Forgets
    <3>2. CASE row' = row /\ ask' = [ask EXCEPT ![r] = "publish"]
      <4>1. CellOf(r)' = "gone" /\ \A x \in Requests \ {r} : CellOf(x)' = CellOf(x)
        BY <3>0, <3>2, <2>t DEF CellOf
      <4>2. {r} \in SUBSET Requests /\ \A x \in {r} : CellOf(x)' = "gone"
        BY <4>1
      <4> QED BY <3>0, <4>1, <4>2, Forgets
    <3> QED
      <4>1. PICK ok \in BOOLEAN :
              /\ row' = [x \in Requests |-> IF ok /\ x \in Expired(r) THEN "absent"
                                                                       ELSE row[x]]
              /\ ask' = [ask EXCEPT ![r] = IF ok THEN "insert" ELSE "publish"]
        BY <2>2 DEF PruneRows
      <4>2. CASE ok
        BY <4>1, <4>2, <3>1
      <4>3. CASE ~ok
        <5>1. row' = row
          BY <4>1, <4>3, <2>t
        <5> QED BY <4>1, <4>3, <5>1, <3>2
      <4> QED BY <4>2, <4>3
  <2>3. ASSUME NEW r \in Requests, InsertRow(r) PROVE [Abstract!Next]_<<cells, result>>
    <3>0. /\ ask[r] = "insert" /\ row[r] = "absent" /\ UNCHANGED result
          /\ ask' = [ask EXCEPT ![r] = "publish"]
      BY <2>3, <2>0 DEF InsertRow, RowsInv, RowOf, Early
    <3>1. CASE row' = [row EXCEPT ![r] = "pending"]
      <4>1. Abstract!Post(r)
        BY <3>0, <3>1, <2>t DEF Abstract!Post, CellOf
      <4> QED BY <4>1 DEF Abstract!Next
    <3>2. CASE row' = row
      <4>1. CellOf(r)' = "gone" /\ \A x \in Requests \ {r} : CellOf(x)' = CellOf(x)
        BY <3>0, <3>2, <2>t DEF CellOf
      <4>2. {r} \in SUBSET Requests /\ \A x \in {r} : CellOf(x)' = "gone"
        BY <4>1
      <4> QED BY <3>0, <4>1, <4>2, Forgets
    <3> QED BY <2>3, <3>0, <3>1, <3>2 DEF InsertRow, Insert
  <2>4. ASSUME NEW r \in Requests, StartWait(r) PROVE [Abstract!Next]_<<cells, result>>
    BY <2>4, <2>t DEF StartWait, CellOf
  <2>5. ASSUME NEW r \in Requests, NEW how \in Choices \cup {"interrupt"}, Leave(r, how)
        PROVE  [Abstract!Next]_<<cells, result>>
    <3>1. ask[r] = "wait" /\ result[r] = "none"
      BY <2>5, <2>0 DEF Leave, AskInv, AskOf
    <3>2. UNCHANGED cells
      BY <2>5, <3>1, <2>t DEF Leave, CellOf
    <3>3. Abstract!Return(r, how)
      BY <2>5, <3>1, <3>2 DEF Leave, Abstract!Return
    <3> QED BY <3>3 DEF Abstract!Next
  <2>15. ASSUME NEW r \in Requests, Abandon(r) PROVE [Abstract!Next]_<<cells, result>>
    <3>0. /\ ask[r] \in {"prune", "insert", "publish"} /\ result[r] = "none"
          /\ ask' = [ask EXCEPT ![r] = "cut"] /\ UNCHANGED row
          /\ result' = [result EXCEPT ![r] = "interrupt"]
      BY <2>15, <2>0 DEF Abandon, AskInv, AskOf, Before, Early
    <3>1. CASE ask[r] = "publish"
      <4>1. UNCHANGED cells
        BY <3>0, <3>1, <2>t DEF CellOf
      <4>2. Abstract!Return(r, "interrupt")
        BY <3>0, <4>1 DEF Abstract!Return
      <4> QED BY <4>2 DEF Abstract!Next
    <3>2. CASE ask[r] # "publish"
      <4>1. row[r] = "absent"
        BY <3>0, <3>2, <2>0 DEF RowsInv, RowOf, Early
      <4>2. Abstract!Waive(r, "interrupt")
        BY <3>0, <4>1, <2>t DEF Abstract!Waive, CellOf
      <4> QED BY <4>2 DEF Abstract!Next
    <3> QED BY <3>1, <3>2
  <2>6. ASSUME NEW r \in Requests, Cleanup(r) PROVE [Abstract!Next]_<<cells, result>>
    <3>0. /\ ask[r] = "cleanup" /\ UNCHANGED result
          /\ ask' = [ask EXCEPT ![r] = "over"]
      BY <2>6 DEF Cleanup
    <3>1. CASE row[r] = "pending" /\ row' = [row EXCEPT ![r] = "absent"]
      <4>1. CellOf(r)' = "gone" /\ \A x \in Requests \ {r} : CellOf(x)' = CellOf(x)
        BY <3>0, <3>1, <2>t DEF CellOf
      <4>2. {r} \in SUBSET Requests /\ \A x \in {r} : CellOf(x)' = "gone"
        BY <4>1
      <4> QED BY <3>0, <4>1, <4>2, Forgets
    <3>2. CASE row' = row
      BY <3>0, <3>2, <2>t DEF CellOf
    <3> QED BY <2>6, <3>1, <3>2, <2>t DEF Cleanup, Discard
  <2>7. ASSUME NEW c \in Replies, UpdateRow(c) PROVE [Abstract!Next]_<<cells, result>>
    <3> DEFINE r == call[c].req
    <3>0. /\ r \in Requests /\ call[c].choice \in Choices /\ UNCHANGED <<ask, result>>
      BY <2>7, <2>0 DEF UpdateRow, At, CallsInv, CallOf, ChoicesOf, Choices, askVars
    <3>1. CASE row[r] = "pending" /\ row' = [row EXCEPT ![r] = call[c].choice]
      <4>1. call[c].choice # "absent"
        BY <3>0 DEF Choices
      <4>2. Abstract!Settle(r, call[c].choice)
        BY <3>0, <3>1, <4>1, <2>t DEF Abstract!Settle, CellOf
      <4> QED BY <4>2, <3>0 DEF Abstract!Next
    <3>2. CASE row' = row
      BY <3>0, <3>2, Stutters
    <3> QED BY <2>7, <3>1, <3>2, <2>t DEF UpdateRow, Update
  <2>8. ASSUME NEW p \in Procs, Crash(p) PROVE [Abstract!Next]_<<cells, result>>
    <3> DEFINE S == {r \in Requests : Home[r] = p /\ ask[r] \in Early}
    <3>1. UNCHANGED <<row, result>>
      BY <2>8 DEF Crash
    <3>2. \A r \in S : CellOf(r)' = "gone"
      BY <2>8, <3>1, <2>0, <2>t DEF Crash, CellOf, RowsInv, RowOf, Early
    <3>3. \A r \in Requests \ S : CellOf(r)' = CellOf(r)
      BY <2>8, <3>1, <2>t DEF Crash, CellOf, Early
    <3> QED BY <3>1, <3>2, <3>3, Forgets
  <2>9. CASE UNCHANGED <<row, ask, result>>
    BY <2>9, Stutters
  <2>10. ASSUME NEW r \in Requests, AnAskStep(r)
         PROVE  \/ Ask(r) \/ PruneRows(r) \/ InsertRow(r) \/ StartWait(r) \/ Cleanup(r)
                \/ Abandon(r)
                \/ \E how \in Choices \cup {"interrupt"} : Leave(r, how)
                \/ UNCHANGED <<row, ask, result>>
    BY <2>10, <2>t DEF AnAskStep, AskStep, Wake, ReadRow, Reconcile, Beat, Lapse,
         Interrupt, Abandon, askVars
  <2>11. ASSUME NEW c \in Calls, NEW r \in Requests, NEW p \in Procs, NEW v \in Choices,
                Reply(c, r, p, v)
         PROVE  UNCHANGED <<row, ask, result>>
    BY <2>11 DEF Reply, askVars
  <2>12. ASSUME NEW c \in Replies, CallStep(c)
         PROVE  UpdateRow(c) \/ UNCHANGED <<row, ask, result>>
    BY <2>12 DEF CallStep, Lookup, SelectRow, Apply, Cascade, askVars
  <2>13. ASSUME NEW p \in Procs, Dispose(p) PROVE UNCHANGED <<row, ask, result>>
    BY <2>13 DEF Dispose, askVars
  <2>14. CASE UNCHANGED vars
    BY <2>14, <2>9 DEF vars, askVars
  <2> QED BY <1>2, <2>1, <2>2, <2>3, <2>4, <2>5, <2>6, <2>7, <2>8, <2>9, <2>10, <2>11,
             <2>12, <2>13, <2>14, <2>15 DEF Next, Rest, AnAskStep
<1>3. IInv /\ [Next]_vars => [Abstract!Next]_<<cells, result>>
  BY <1>2
<1> QED BY Invariance, <1>1, <1>3, PTL DEF Spec, WriteOnce, Abstract!Spec
=============================================================================
