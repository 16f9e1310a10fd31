------------------------------ MODULE SignalBot -------------------------------
(***************************************************************************)
(* The bot process of main.py: the endless loop of passes over the market, *)
(* the health checks and periodic reports that follow each pass, and the   *)
(* Telegram commands and buttons it answers while it waits.                *)
(*                                                                         *)
(* Between any two of its steps the process may be stopped (Stop) and      *)
(* started again later (Start); then only the state files, the signal      *)
(* database and what Telegram still holds are left.  The write of a state  *)
(* file may fail or be cut off after the file was emptied, the database    *)
(* may refuse a write, and Telegram may not answer.                        *)
(***************************************************************************)
EXTENDS Monitoring, Sequences, FiniteSetsExt, SequencesExt

CONSTANTS
    Signals,          \* identities of the signals the strategies may produce
    Updates,          \* updates users may send to the bot
    Console,          \* TRUE: a console channel is enabled beside Telegram
    BatchLimit,       \* updates of one getUpdates answer
    NapsPerPass,      \* polls of Telegram between two passes
    Budgets           \* what the environment may still do: records of bounds

\* lost names the mute switch beside the signals.
ASSUME BotAssumption ==
    BatchLimit \in Nat \ {0} /\ IsFiniteSet(Signals) /\ "mute" \notin Signals

VARIABLES
    clock,            \* the wall clock
    pc,               \* where the process is, "down" when there is none
    outbox,           \* signals of this pass not yet dispatched
    pass,             \* what the generator counted in this pass
    todo,             \* health checks, then report periods, still to be done
    naps,             \* naps left before the next pass
    sent, sentFile,           \* AlertThrottle._sent and health_alerts.json
    failures, errors,         \* HealthMonitor's counters
    marked, markedFile,       \* ReportSchedule._sent and report_schedule.json
    offset, offsetFile,       \* TelegramCommandBot._offset and its file
    muted, mutedFile,         \* MuteState and its file
    batch,                    \* updates of the last answer still to be handled
    logged, acks, jsonl,      \* tables signals and signal_acks, signals.jsonl
    queue, confirmed,         \* Telegram: all updates, and the first still kept
    left,                     \* what is left of the environment's budget
    (* history *)
    alertedAt,        \* last moment an alert of a key was sent in each status
    excused,          \* alerts whose problem was solved, or record lost, since
    reportedAt, unmarked,     \* last report of a period; its mark was lost
    received,         \* signals that reached the user's phone
    unlogged,         \* those of them whose row was never written
    lost              \* decisions the bot could not write down

procVars == <<outbox, pass, todo, naps, failures, errors, batch>>
alertVars == <<sent, sentFile, alertedAt, excused>>
reportVars == <<marked, markedFile, reportedAt, unmarked>>
chatVars == <<offset, offsetFile, muted, mutedFile, queue, confirmed, lost>>
dbVars == <<logged, acks, jsonl, received, unlogged>>
vars == <<clock, pc, left, procVars, alertVars, reportVars, chatVars, dbVars>>

Alerts == {"warning", "critical"}
Absent == [status |-> "none", at |-> Never]
NoPass == [failed |-> FALSE, broken |-> {}, status |-> "new"]

\* The environment uses up one of its events of kind k.
Spend(k) == /\ left[k] > 0
            /\ left' = [left EXCEPT ![k] = @ - 1]

\* Time passes while the bot sleeps or is down, or too little to count.
Elapse == \/ clock' = clock /\ UNCHANGED left
          \/ clock' = clock + 1 /\ Spend("tick")

\* What a file that was emptied and not filled again is read back as.
NoAlerts == [k \in Keys |-> NotSent]
NoMarks == [p \in Periods |-> Never]

\* write_text empties a state file and fills it again.  An OSError is logged and
\* swallowed, and leaves the file as it was or as good as empty.
Written(file, value, empty) ==
    \/ file' = value /\ UNCHANGED left
    \/ file' \in {file, empty} /\ Spend("fault")

Init ==
    /\ clock = 0 /\ pc = "down" /\ left \in Budgets
    /\ outbox = <<>> /\ todo = <<>> /\ naps = 0 /\ batch = <<>>
    /\ pass = NoPass
    /\ sent = NoAlerts /\ sentFile = NoAlerts
    /\ failures = 0 /\ errors = [s \in Strategies |-> 0]
    /\ marked = NoMarks /\ markedFile = NoMarks
    /\ offset = 0 /\ offsetFile = 0 /\ muted = FALSE /\ mutedFile = FALSE
    /\ logged = [s \in Signals |-> Absent] /\ jsonl = {}
    /\ acks = [s \in Signals |-> "none"]
    /\ queue = <<>> /\ confirmed = 0
    /\ alertedAt = [k \in Keys |-> [s \in Alerts |-> Never]]
    /\ excused = {} /\ unmarked = {}
    /\ reportedAt = [p \in Periods |-> Never]
    /\ received = {} /\ unlogged = {}
    /\ lost = {}

-----------------------------------------------------------------------------
(* Start and stop.                                                         *)

\* create_app and the builders: every state is read back from its file.
Start ==
    /\ pc = "down"
    /\ Elapse
    /\ pc' = "cycle"
    /\ sent' = sentFile /\ marked' = markedFile
    /\ offset' = offsetFile /\ muted' = mutedFile
    /\ failures' = 0 /\ errors' = [s \in Strategies |-> 0]
    /\ UNCHANGED <<outbox, pass, todo, naps, batch, sentFile, alertedAt,
                   excused, markedFile, reportedAt, unmarked, offsetFile,
                   mutedFile, queue, confirmed, lost, dbVars>>

\* The process ends, and what it had in memory is lost: alerts recorded there
\* and not in the file, reports sent after the mark the file holds, and the row
\* of a signal that was being saved.
Die ==
    /\ pc' = "down"
    /\ outbox' = <<>> /\ todo' = <<>> /\ naps' = 0 /\ batch' = <<>>
    /\ pass' = NoPass
    /\ failures' = 0 /\ errors' = [s \in Strategies |-> 0]
    /\ excused' = excused \cup ({k \in Keys : \/ sentFile'[k] # sent[k]
                                              \/ pc = "record" /\ k = Head(todo).key}
                                \X Alerts)
    /\ unmarked' = unmarked \cup {p \in Periods :
                                   /\ markedFile'[p] # Never
                                   /\ \/ markedFile'[p] # marked[p]
                                      \/ pc = "mark" /\ p = Head(todo)}
    /\ unlogged' = unlogged \cup {s \in received : /\ pc = "save" /\ s = Head(outbox)
                                                   /\ logged[s] = Absent}
    /\ UNCHANGED <<clock, sent, alertedAt, marked, reportedAt, offset, muted, queue,
                   confirmed, lost, logged, acks, jsonl, received>>

stateFiles == <<sentFile, markedFile, offsetFile, mutedFile>>

Stop ==
    /\ pc # "down"
    /\ Spend("stop")
    /\ UNCHANGED stateFiles
    /\ Die

\* The process is stopped while it writes a state file, which it had emptied.
StopInWrite ==
    /\ Spend("stop")
    /\ \/ /\ \/ pc = "record"
             \/ /\ pc = "check" /\ ~IsAlert(Head(todo).status)
                /\ sent[Head(todo).key] # NotSent
          /\ sentFile' = NoAlerts
          /\ UNCHANGED <<markedFile, offsetFile, mutedFile>>
       \/ /\ pc = "mark" \/ (pc = "reports" /\ marked[Head(todo)] = Never)
          /\ markedFile' = NoMarks
          /\ UNCHANGED <<sentFile, offsetFile, mutedFile>>
       \/ /\ pc = "handle" /\ batch = <<>>
          /\ offsetFile' = 0
          /\ UNCHANGED <<sentFile, markedFile, mutedFile>>
       \/ /\ pc = "handle" /\ batch # <<>>
          /\ queue[Head(batch)].chat = "allowed"
          /\ queue[Head(batch)].kind \in {"mute", "unmute"}
          /\ mutedFile' = FALSE
          /\ UNCHANGED <<sentFile, markedFile, offsetFile>>
    /\ Die

-----------------------------------------------------------------------------
(* run_cycle and dispatch.                                                 *)

\* The market is closed and run_only_when_market_open is set.
SkipCycle ==
    /\ pc = "cycle"
    /\ pc' = "reports" /\ todo' = <<"daily", "weekly">>
    /\ UNCHANGED <<clock, left, outbox, pass, naps, failures, errors, batch,
                   alertVars, reportVars, chatVars, dbVars>>

Fresh == {s \in Signals : logged[s] = Absent /\ s \notin received}

\* SignalGenerator.run_once, seen from the loop: new signals in some order,
\* whether every symbol failed, and which strategies raised an exception.
RunCycle ==
    /\ pc = "cycle"
    /\ \E n \in 0 .. Cardinality(Signals), failed \in BOOLEAN, broken \in SUBSET Strategies :
         LET new == IF n = 0 THEN 0 ELSE 1
             bad == IF failed \/ broken # {} THEN 1 ELSE 0
         IN  /\ failed => n = 0
             /\ new <= left.signal /\ bad <= left.bad
             /\ left' = [left EXCEPT !.signal = @ - new, !.bad = @ - bad]
             /\ outbox' \in Injection(1 .. n, Fresh)
             /\ pass' = [failed |-> failed, broken |-> broken, status |-> "new"]
             /\ pc' = IF n = 0 THEN "count" ELSE "send"
    /\ UNCHANGED <<clock, todo, naps, failures, errors, batch,
                   alertVars, reportVars, chatVars, dbVars>>

\* TelegramNotifier.send_text delivers unless muted or Telegram fails.
MayDeliver == ~muted

\* dispatch, first half: every channel gets the signal; the console always
\* takes it.  The status is set before the signal is saved.
SendSignal ==
    /\ pc = "send"
    /\ \E ok \in {FALSE} \cup {MayDeliver} :
         /\ received' = IF ok THEN received \cup {Head(outbox)} ELSE received
         /\ pass' = [pass EXCEPT !.status = IF ok \/ Console THEN "notified" ELSE "new"]
    /\ pc' = "save"
    /\ UNCHANGED <<clock, left, outbox, todo, naps, failures, errors, batch,
                   alertVars, reportVars, chatVars, logged, acks, jsonl, unlogged>>

\* dispatch, second half: SignalLog.save commits the row, then adds the line
\* of signals.jsonl, whose failure is swallowed.
SaveSignal ==
    /\ pc = "save"
    /\ logged' = [logged EXCEPT ![Head(outbox)] =
                     [status |-> pass.status, at |-> clock]]
    /\ \/ jsonl' = jsonl \cup {Head(outbox)} /\ UNCHANGED left
       \/ jsonl' = jsonl /\ Spend("fault")
    /\ outbox' = Tail(outbox)
    /\ pc' = IF outbox' = <<>> THEN "count" ELSE "send"
    /\ UNCHANGED <<clock, pass, todo, naps, failures, errors, batch,
                   alertVars, reportVars, chatVars, acks, received, unlogged>>

\* Faulty: an error of the database is swallowed like one of signals.jsonl.
SaveSwallows ==
    /\ pc = "save"
    /\ Spend("fault")
    /\ outbox' = Tail(outbox)
    /\ pc' = IF outbox' = <<>> THEN "count" ELSE "send"
    /\ UNCHANGED <<clock, pass, todo, naps, failures, errors, batch,
                   alertVars, reportVars, chatVars, dbVars>>

\* An error of the database in save is caught nowhere: the bot ends.
SaveRaises ==
    /\ pc = "save"
    /\ Spend("fault")
    /\ UNCHANGED stateFiles
    /\ Die

-----------------------------------------------------------------------------
(* _check_health.                                                          *)

LastSignalAt == Max({logged[s].at : s \in Signals} \cup {Never})

\* The counters first, then all checks at once.  A database that cannot be
\* read counts as one without signals.
CountAndCheck ==
    /\ pc = "count"
    /\ failures' = IF pass.failed THEN failures + 1 ELSE 0
    /\ errors' = [s \in Strategies |-> errors[s] + (IF s \in pass.broken THEN 1 ELSE 0)]
    /\ \/ todo' = RunChecks(LastSignalAt, failures', errors', clock) /\ UNCHANGED left
       \/ todo' = RunChecks(Never, failures', errors', clock) /\ Spend("fault")
    /\ pass' = NoPass
    /\ pc' = "check"
    /\ UNCHANGED <<clock, outbox, naps, batch,
                   alertVars, reportVars, chatVars, dbVars>>

\* The rest of the checks, and after the last one the reports.
NextCheck ==
    IF Len(todo) > 1
    THEN pc' = "check" /\ todo' = Tail(todo)
    ELSE pc' = "reports" /\ todo' = <<"daily", "weekly">>

\* throttle.should_send, then _announce.  What becomes of the message does
\* not matter to the bot: nothing reads the answer of send_text.
Announce ==
    /\ pc = "check"
    /\ LET c == Head(todo) IN
         /\ ShouldSend(sent[c.key], c.status, clock)
         /\ alertedAt' = [alertedAt EXCEPT ![c.key][c.status] = clock]
         /\ excused' = excused \ {<<c.key, c.status>>}
    /\ pc' = "record"
    /\ UNCHANGED <<clock, left, procVars, sent, sentFile, reportVars, chatVars, dbVars>>

RecordAlert ==
    /\ pc = "record"
    /\ LET c == Head(todo) IN
         sent' = [sent EXCEPT ![c.key] = [status |-> c.status, at |-> clock]]
    /\ Written(sentFile, sent', NoAlerts)
    /\ NextCheck
    /\ UNCHANGED <<clock, outbox, pass, naps, failures, errors, batch,
                   alertedAt, excused, reportVars, chatVars, dbVars>>

\* The problem is gone: forget the alert, so that the next one goes at once.
ClearAlert ==
    /\ pc = "check"
    /\ LET c == Head(todo) IN
         /\ ~IsAlert(c.status)
         /\ sent' = [sent EXCEPT ![c.key] = NotSent]
         /\ excused' = excused \cup ({c.key} \X Alerts)
         /\ IF sent[c.key] = NotSent
            THEN UNCHANGED <<sentFile, left>>
            ELSE Written(sentFile, sent', NoAlerts)
    /\ NextCheck
    /\ UNCHANGED <<clock, outbox, pass, naps, failures, errors, batch,
                   alertedAt, reportVars, chatVars, dbVars>>

\* The alert was sent not long ago.
Suppress ==
    /\ pc = "check"
    /\ LET c == Head(todo) IN
         IsAlert(c.status) /\ ~ShouldSend(sent[c.key], c.status, clock)
    /\ NextCheck
    /\ UNCHANGED <<clock, left, outbox, pass, naps, failures, errors, batch,
                   alertVars, reportVars, chatVars, dbVars>>

-----------------------------------------------------------------------------
(* _maybe_send_periodic_report.                                            *)

NextPeriod ==
    IF Len(todo) > 1
    THEN pc' = "reports" /\ todo' = Tail(todo) /\ naps' = naps
    ELSE pc' = "poll" /\ todo' = <<>> /\ naps' = NapsPerPass

\* is_due of a period never marked only marks it, so that a new installation
\* does not begin with an empty report.
FirstMark ==
    /\ pc = "reports"
    /\ marked[Head(todo)] = Never
    /\ marked' = [marked EXCEPT ![Head(todo)] = clock]
    /\ Written(markedFile, marked', NoMarks)
    /\ NextPeriod
    /\ UNCHANGED <<clock, outbox, pass, failures, errors, batch, alertVars,
                   reportedAt, unmarked, chatVars, dbVars>>

\* Not due; or due, and building the report raised an exception.
NoReport ==
    /\ pc = "reports"
    /\ marked[Head(todo)] # Never
    /\ \/ ~IsDue(marked[Head(todo)], Head(todo), clock) /\ UNCHANGED left
       \/ IsDue(marked[Head(todo)], Head(todo), clock) /\ Spend("fault")
    /\ NextPeriod
    /\ UNCHANGED <<clock, outbox, pass, failures, errors, batch, alertVars,
                   reportVars, chatVars, dbVars>>

SendReport ==
    /\ pc = "reports"
    /\ marked[Head(todo)] # Never
    /\ IsDue(marked[Head(todo)], Head(todo), clock)
    /\ reportedAt' = [reportedAt EXCEPT ![Head(todo)] = clock]
    /\ unmarked' = unmarked \ {Head(todo)}
    /\ pc' = "mark"
    /\ UNCHANGED <<clock, left, procVars, alertVars, marked, markedFile,
                   chatVars, dbVars>>

\* Variant: the mark is only written to the file.
MarkSentInFile ==
    /\ pc = "mark"
    /\ Written(markedFile, [marked EXCEPT ![Head(todo)] = clock], NoMarks)
    /\ NextPeriod
    /\ UNCHANGED <<clock, outbox, pass, failures, errors, batch, alertVars,
                   marked, reportedAt, unmarked, chatVars, dbVars>>

MarkSent ==
    /\ pc = "mark"
    /\ marked' = [marked EXCEPT ![Head(todo)] = clock]
    /\ Written(markedFile, marked', NoMarks)
    /\ NextPeriod
    /\ UNCHANGED <<clock, outbox, pass, failures, errors, batch, alertVars,
                   reportedAt, unmarked, chatVars, dbVars>>

-----------------------------------------------------------------------------
(* Telegram, as the bot uses it: updates are numbered from 1, and a request *)
(* with an offset makes it forget every update below that offset.           *)

\* A button exists only under a signal that reached the phone.  Arrivals
\* matter only to the next Fetch, so they happen just before it.
Arrive ==
    /\ pc = "poll"
    /\ Spend("update")
    /\ \E u \in Updates : /\ u.kind = "ack" => u.signal \in received
                          /\ queue' = Append(queue, u)
    /\ UNCHANGED <<clock, pc, procVars, alertVars, reportVars, offset, offsetFile,
                   muted, mutedFile, confirmed, lost, dbVars>>

Larger(a, b) == IF a > b THEN a ELSE b
Smaller(a, b) == IF a < b THEN a ELSE b

\* poll_once: getUpdates.
Fetch ==
    /\ pc = "poll"
    /\ confirmed' = Larger(confirmed, offset)
    /\ batch' = [n \in 1..Smaller(BatchLimit, Len(queue) + 1 - Larger(1, confirmed')) |->
                    Larger(1, confirmed') + n - 1]
    /\ pc' = "handle"
    /\ UNCHANGED <<clock, left, outbox, pass, todo, naps, failures, errors,
                   alertVars, reportVars, offset, offsetFile, muted, mutedFile,
                   queue, lost, dbVars>>

\* Telegram does not answer: nothing is read and nothing is saved.
FetchFails ==
    /\ pc = "poll"
    /\ pc' = "nap"
    /\ UNCHANGED <<clock, left, procVars, alertVars, reportVars, chatVars, dbVars>>

\* Variant: an update of another chat does not move the offset.
ConsumeAllowed ==
    /\ pc = "handle" /\ batch # <<>>
    /\ offset' = IF queue[Head(batch)].chat = "allowed"
                 THEN Larger(offset, Head(batch) + 1) ELSE offset
    /\ batch' = Tail(batch)
    /\ UNCHANGED <<clock, pc, outbox, pass, todo, naps, failures, errors, alertVars,
                   reportVars, offsetFile, queue, confirmed, logged, jsonl, received, unlogged>>

\* The head of the batch is taken, whatever becomes of it.
Consume ==
    /\ pc = "handle" /\ batch # <<>>
    /\ offset' = Larger(offset, Head(batch) + 1)
    /\ batch' = Tail(batch)
    /\ UNCHANGED <<clock, pc, outbox, pass, todo, naps, failures, errors, alertVars,
                   reportVars, offsetFile, queue, confirmed, logged, jsonl, received, unlogged>>

\* Another chat, an unknown button, or a command that only reads.
HandleOther ==
    /\ Consume
    /\ \/ queue[Head(batch)].chat # "allowed"
       \/ queue[Head(batch)].kind = "read"
    /\ UNCHANGED <<left, muted, mutedFile, acks, lost>>

\* Variant: the switch is set in memory only.
HandleMuteInMemory ==
    /\ Consume
    /\ LET u == queue[Head(batch)] IN
         /\ u.chat = "allowed"
         /\ u.kind \in {"mute", "unmute"}
         /\ muted' = (u.kind = "mute")
    /\ UNCHANGED <<mutedFile, lost, left, acks>>

\* /mute and /unmute: MuteState.set, whose file may refuse the write.
HandleMute ==
    /\ Consume
    /\ LET u == queue[Head(batch)] IN
         /\ u.chat = "allowed"
         /\ u.kind \in {"mute", "unmute"}
         /\ muted' = (u.kind = "mute")
    /\ \/ mutedFile' = muted' /\ lost' = lost \ {"mute"} /\ UNCHANGED left
       \/ /\ Spend("fault") /\ lost' = lost \cup {"mute"}
          /\ mutedFile' \in {mutedFile, FALSE}
    /\ UNCHANGED acks

\* A button: AckStore.record replaces the row of the signal, or fails and the
\* user is asked to try again.
HandleAck ==
    /\ Consume
    /\ LET u == queue[Head(batch)] IN
         /\ u.chat = "allowed"
         /\ u.kind = "ack"
         /\ \/ acks' = [acks EXCEPT ![u.signal] = u.action] /\ UNCHANGED <<lost, left>>
            \/ Spend("fault") /\ lost' = lost \cup {u.signal} /\ UNCHANGED acks
    /\ UNCHANGED <<muted, mutedFile>>

\* Only after the whole batch is the offset written down.
SaveOffset ==
    /\ pc = "handle" /\ batch = <<>>
    /\ Written(offsetFile, offset, 0)
    /\ pc' = "nap"
    /\ UNCHANGED <<clock, procVars, alertVars, reportVars, offset, muted, mutedFile,
                   queue, confirmed, lost, dbVars>>

\* _wait sleeps a few seconds between polls, and then comes the next pass.
Nap ==
    /\ pc = "nap"
    /\ Elapse
    /\ naps' = naps - 1
    /\ pc' = IF naps' > 0 THEN "poll" ELSE "cycle"
    /\ UNCHANGED <<outbox, pass, todo, failures, errors, batch,
                   alertVars, reportVars, chatVars, dbVars>>

-----------------------------------------------------------------------------
Handle == HandleOther \/ HandleMute \/ HandleAck

\* What the process does by itself, without the answers of Telegram.
Step ==
    \/ SkipCycle \/ RunCycle \/ SendSignal \/ SaveSignal \/ SaveRaises
    \/ CountAndCheck \/ Announce \/ RecordAlert \/ ClearAlert \/ Suppress
    \/ FirstMark \/ NoReport \/ SendReport \/ MarkSent
    \/ FetchFails \/ Handle \/ SaveOffset \/ Nap

Next == Start \/ Stop \/ StopInWrite \/ Arrive \/ Fetch \/ Step

\* The process runs while it is up, whoever runs it starts it again, and
\* Telegram, asked again and again, answers again and again.
Spec == /\ Init /\ [][Next]_vars
        /\ WF_vars(Start) /\ WF_vars(Step) /\ SF_vars(Fetch)

-----------------------------------------------------------------------------
(* Properties.                                                             *)

\* AckStore.stats: only decisions about signals of the table are counted.
Stats ==
    LET total == {s \in Signals : logged[s] # Absent}
        counted == {s \in total : acks[s] # "none"}
        acknowledged == Cardinality(counted)
    IN  [total_signals |-> Cardinality(total),
         acknowledged |-> acknowledged,
         unacknowledged |-> Larger(Cardinality(total) - acknowledged, 0)]

\* A health check that finds a problem stays silent only when an alert of the
\* same key, at least as severe, went out less than a cooldown ago: neither a
\* restart nor a refused write makes the bot silent about a worse state.
AlertedRecently ==
    pc = "check" =>
        LET c == Head(todo) IN
        (IsAlert(c.status) /\ ~ShouldSend(sent[c.key], c.status, clock)) =>
            \E s \in Alerts :
                /\ Severity(s) >= Severity(c.status)
                /\ alertedAt[c.key][s] # Never
                /\ clock - alertedAt[c.key][s] < Cooldown

\* Within a cooldown of an alert, no alert of the same key that is not worse
\* goes out, unless the problem was solved since, or the process ended while the
\* file did not hold the record: before the write, or because a write failed or
\* was cut off after it had emptied the file of all keys.
NoAlertFlood ==
    pc = "check" =>
        LET c == Head(todo) IN
        ShouldSend(sent[c.key], c.status, clock) =>
            \A s \in Alerts :
                \/ Severity(s) < Severity(c.status)
                \/ <<c.key, s>> \in excused
                \/ alertedAt[c.key][s] = Never
                \/ clock - alertedAt[c.key][s] >= Cooldown

\* Two reports of one period are at least that period apart, restarts
\* included, unless the process ended while an older mark was in the file; a
\* file that was emptied only delays the next report.
ReportsSpaced ==
    pc = "reports" =>
        LET p == Head(todo) IN
        (marked[p] # Never /\ IsDue(marked[p], p, clock) /\ p \notin unmarked) =>
            \/ reportedAt[p] = Never
            \/ clock - reportedAt[p] >= PeriodLength[p]

\* When a batch is done, every decision the user made through the updates
\* consumed so far stands: the last button of each signal and the last of
\* /mute and /unmute, in the order they were sent, although a stop in the
\* middle of a batch, or within the write of the mute file or of the offset,
\* executes updates again.
CaughtUp ==
    (pc = "handle" /\ batch = <<>>) =>
        LET done(K) == {i \in DOMAIN queue : /\ i < Larger(offset, confirmed)
                                             /\ queue[i].chat = "allowed"
                                             /\ queue[i].kind \in K}
            about(s) == {i \in done({"ack"}) : queue[i].signal = s}
            mutes == done({"mute", "unmute"})
        IN  /\ \A s \in Signals \ lost :
                 acks[s] = IF about(s) = {} THEN "none" ELSE queue[Max(about(s))].action
            /\ "mute" \notin lost =>
                 muted = (mutes # {} /\ queue[Max(mutes)].kind = "mute")

\* The figures count every answer of the user, but for the answers about signals
\* whose row was never written because the bot ended between sending and saving.
AnswersCounted ==
    Stats.acknowledged = Cardinality({s \in Signals \ unlogged : acks[s] # "none"})

\* Every update is consumed in the end, whatever stops and failures come
\* before, if Telegram answers now and then and the bot is started again.
UpdatesHandled == \A i \in 1..2 : (Len(queue) >= i) ~> (Larger(offset, confirmed) > i)
=============================================================================
